---- MODULE Spec2Model ----
(***************************************************************************)
(* EV route planner: station graph, range-constrained search (UCS, A-star), *)
(* route simulators and plan_route, modelled from the Python sources.      *)
(*                                                                         *)
(* Units.  Python floats are modelled by exact integers:                   *)
(*   distance  km                                                          *)
(*   SOC       1/1000 percent (so 100 % = 100000)                          *)
(*   time      1/1000 minute                                               *)
(* All stations lie on one meridian and a latitude is given as the arc     *)
(* length R*radians(lat) in km, for which the haversine formula is exactly *)
(* the absolute difference of the two latitudes.                           *)
(***************************************************************************)
EXTENDS Integers, Sequences, FiniteSets, TLC

\* ------------------------------------------------------------------ bounds
\* the small expansion budget offered as max_expansions
SmallBudget == 3
\* the large expansion budget offered as max_expansions
LargeBudget == 60
\* number of points of the longest polyline offered to simulate_along_polyline
MaxPolyPoints == 3

\* ------------------------------------------------- numbers and sequences
Abs(x) == IF x < 0 THEN -x ELSE x
Min2(a, b) == IF a <= b THEN a ELSE b
Max2(a, b) == IF a >= b THEN a ELSE b

\* float('inf') as used for a missing edge weight and as the initial best time
INF == 1000 * 1000 * 1000

\* the pandas missing value (float NaN) as a time; real times are >= 0
NaN == -1

\* Python round(x, ndigits) on a value x given in units of 1/1000: the
\* result is the nearest multiple of q (q = 100 for one decimal, 10 for two),
\* an exact tie going to the even multiple.
RoundTo(x, q) ==
  LET lo == (x \div q) * q
      r  == x - lo
  IN  IF 2 * r < q THEN lo
      ELSE IF 2 * r > q THEN lo + q
      ELSE IF (lo \div q) % 2 = 0 THEN lo ELSE lo + q

Round1(x) == RoundTo(x, 100)
Round2(x) == RoundTo(x, 10)
Round3(x) == RoundTo(x, 1)

\* float arithmetic with NaN on times
FAdd(a, b) == IF a = NaN \/ b = NaN THEN NaN ELSE a + b
FLt(a, b) == a # NaN /\ b # NaN /\ a < b
FLe(a, b) == a # NaN /\ b # NaN /\ a <= b
FEq(a, b) == a # NaN /\ b # NaN /\ a = b

Range(s) == {s[i] : i \in 1..Len(s)}
Take(s, k) == SubSeq(s, 1, Min2(Max2(k, 0), Len(s)))
IndexOf(s, x) == CHOOSE i \in 1..Len(s) : s[i] = x
RemoveFromSeq(s, x) == SelectSeq(s, LAMBDA y : y # x)

\* list.sort(key=lambda x: x[1]) on records with a field d: stable
RECURSIVE SortInsert(_, _)
SortInsert(sorted, e) ==
  IF sorted = <<>> THEN <<e>>
  ELSE IF Head(sorted).d <= e.d THEN <<Head(sorted)>> \o SortInsert(Tail(sorted), e)
  ELSE <<e>> \o sorted

RECURSIVE SortByDist(_)
SortByDist(s) ==
  IF s = <<>> THEN <<>>
  ELSE SortInsert(SortByDist(SubSeq(s, 1, Len(s) - 1)), s[Len(s)])

\* ---------------------------------------------------------- energy model
consumption_kwh_per_100km == 15
battery_kwh_max == 40
safe_threshold_percent == 20000
charge_target_percent == 80000
avg_speed_kmh == 60
max_search_distance_km == 100

\* kwh_needed in units of 1/100 kWh
kwh_needed(distance_km, consumption) == distance_km * consumption

\* need_percent = (need_kwh / battery_kwh_max) * 100.0, in 1/1000 percent
NeedPercent(distance_km) ==
  (kwh_needed(distance_km, consumption_kwh_per_100km) * 1000) \div battery_kwh_max

\* the drive time in hours, the factor 60.0 left out
DriveTime_hours(distance_km) ==
  IF avg_speed_kmh > 0 THEN (distance_km * 1000) \div avg_speed_kmh ELSE 0

\* drive_time_min = (dist / avg_speed_kmh) * 60.0, in 1/1000 minute
DriveTime(distance_km) ==
  IF avg_speed_kmh > 0 THEN (distance_km * 60 * 1000) \div avg_speed_kmh ELSE 0

\* the heuristic: (haversine_km(...) / avg_speed_kmh) * 60.0; a zero speed raises
\* ZeroDivisionError, which the caller turns into h = 0
DriveTimeH(distance_km) ==
  IF avg_speed_kmh # 0 THEN (distance_km * 60 * 1000) \div avg_speed_kmh ELSE 0

\* A power rating as read from a station row: kind "none" (no value, None),
\* "nan" (the pandas missing value) or "num" (a number of kW).
PNone == [kind |-> "none", kw |-> 0]
PNaN == [kind |-> "nan", kw |-> 0]
PNum(k) == [kind |-> "num", kw |-> k]

\* bool(power_kw) and power_kw > 0
PowerTruthyPositive(p) == p.kind = "num" /\ p.kw # 0 /\ p.kw > 0

\* power_kw is None or power_kw <= 0
PowerNoneOrNonPositive(p) == p.kind = "none" \/ (p.kind = "num" /\ p.kw <= 0)

\* charge_time_minutes(power_kw, battery_kwh_max * delta_percent / 100.0)
charge_time_minutes(p, delta_percent) ==
  IF p.kind = "nan" THEN NaN
  ELSE (battery_kwh_max * delta_percent * 60) \div (100 * p.kw)

\* ---------------------------------------------------------------- graph
haversine_km(lat1, lat2) == Abs(lat2 - lat1)

\* An nx.Graph: nodes in insertion order, the lat attribute of every node,
\* the adjacency of every node in insertion order, and the distance
\* attribute of every edge {u, v}.
EmptyGraph == [nodes |-> <<>>, lat |-> <<>>, adj |-> <<>>, w |-> <<>>]

NodeSet(G) == Range(G.nodes)
HasNode(G, n) == n \in NodeSet(G)
Lat(G, n) == G.lat[IndexOf(G.nodes, n)]
Adj(G, n) == G.adj[IndexOf(G.nodes, n)]
EdgeSet(G) == {e.e : e \in Range(G.w)}
HasEdge(G, u, v) == {u, v} \in EdgeSet(G)
EdgeDist(G, u, v) == (CHOOSE e \in Range(G.w) : e.e = {u, v}).d

add_node(G, n, lat) ==
  IF HasNode(G, n)
  THEN [G EXCEPT !.lat[IndexOf(G.nodes, n)] = lat]
  ELSE [G EXCEPT !.nodes = Append(@, n), !.lat = Append(@, lat),
                 !.adj = Append(@, <<>>)]

add_edge(G, u, v, d) ==
  LET iu == IndexOf(G.nodes, u)
      iv == IndexOf(G.nodes, v)
      a1 == IF v \in Range(G.adj[iu]) THEN G.adj
            ELSE [G.adj EXCEPT ![iu] = Append(@, v)]
      a2 == IF u \in Range(a1[iv]) THEN a1
            ELSE [a1 EXCEPT ![iv] = Append(@, u)]
      w2 == IF HasEdge(G, u, v)
            THEN [i \in 1..Len(G.w) |->
                    IF G.w[i].e = {u, v} THEN [e |-> {u, v}, d |-> d] ELSE G.w[i]]
            ELSE Append(G.w, [e |-> {u, v}, d |-> d])
  IN  [G EXCEPT !.adj = a2, !.w = w2]

remove_node(G, n) ==
  LET keep == SelectSeq([i \in 1..Len(G.nodes) |-> i], LAMBDA i : G.nodes[i] # n)
  IN  [nodes |-> [k \in 1..Len(keep) |-> G.nodes[keep[k]]],
       lat   |-> [k \in 1..Len(keep) |-> G.lat[keep[k]]],
       adj   |-> [k \in 1..Len(keep) |-> RemoveFromSeq(G.adj[keep[k]], n)],
       w     |-> SelectSeq(G.w, LAMBDA e : n \notin e.e)]

\* the edge loop of build_graph skipping every candidate that has an edge
\* already, to whatever node
RECURSIVE AddNearestEdges_skip_connected(_, _, _, _)
AddNearestEdges_skip_connected(G, ids, i, dists) ==
  IF dists = <<>> THEN G
  ELSE LET j == Head(dists).j
           G2 == IF Adj(G, ids[j]) # <<>> THEN G
                 ELSE add_edge(G, ids[i], ids[j], Head(dists).d)
       IN  AddNearestEdges_skip_connected(G2, ids, i, Tail(dists))

\* G.add_edge(u, v, distance=dist, ...) for the first entries of a sorted
\* candidate list, skipping pairs that are already connected (build_graph)
RECURSIVE AddNearestEdges(_, _, _, _)
AddNearestEdges(G, ids, i, dists) ==
  IF dists = <<>> THEN G
  ELSE LET j == Head(dists).j
           G2 == IF HasEdge(G, ids[i], ids[j]) \/ HasEdge(G, ids[j], ids[i]) THEN G
                 ELSE add_edge(G, ids[i], ids[j], Head(dists).d)
       IN  AddNearestEdges(G2, ids, i, Tail(dists))

\* the k-nearest-neighbour loop of build_graph, from node index i on
RECURSIVE BuildKnn(_, _, _, _, _)
BuildKnn(G, ids, coords, i, k) ==
  IF i > Len(ids) THEN G
  ELSE LET others == SelectSeq([j \in 1..Len(ids) |-> j], LAMBDA j : j # i)
           dists == SortByDist([x \in 1..Len(others) |->
                      [j |-> others[x], d |-> haversine_km(coords[i], coords[others[x]])]])
       IN  BuildKnn(AddNearestEdges(G, ids, i, Take(dists, k)), ids, coords, i + 1, k)

\* the distance-bound loop of build_graph over the pairs (i, j), j > i
RECURSIVE BuildBound(_, _, _, _, _, _)
BuildBound(G, ids, coords, i, j, max_edge_km) ==
  IF i > Len(ids) THEN G
  ELSE IF j > Len(ids) THEN BuildBound(G, ids, coords, i + 1, i + 2, max_edge_km)
  ELSE LET dist == haversine_km(coords[i], coords[j])
           G2 == IF dist <= max_edge_km THEN add_edge(G, ids[i], ids[j], dist) ELSE G
       IN  BuildBound(G2, ids, coords, i, j + 1, max_edge_km)

RECURSIVE AddNodes(_, _, _)
AddNodes(G, stations, i) ==
  IF i > Len(stations) THEN G
  ELSE AddNodes(add_node(G, stations[i].id, stations[i].lat), stations, i + 1)

\* build_graph(stations_df, max_edge_km, k_neighbors); k_neighbors is <<>>
\* for None and <<k>> for the number k
build_graph(stations, max_edge_km, k_neighbors) ==
  LET G0 == AddNodes(EmptyGraph, stations, 1)
      ids == [i \in 1..Len(stations) |-> stations[i].id]
      coords == [i \in 1..Len(stations) |-> stations[i].lat]
  IN  IF k_neighbors # <<>>
      THEN BuildKnn(G0, ids, coords, 1, k_neighbors[1])
      ELSE BuildBound(G0, ids, coords, 1, 2, max_edge_km)

RECURSIVE AddEdgesFrom(_, _, _)
AddEdgesFrom(G, node_id, dists) ==
  IF dists = <<>> THEN G
  ELSE AddEdgesFrom(add_edge(G, node_id, Head(dists).j, Head(dists).d), node_id, Tail(dists))

\* add_virtual_node storing the distance to the first node on every edge
add_virtual_node_stale(G, node_id, lat, k_neighbors, max_dist_km) ==
  LET G1 == add_node(G, node_id, lat)
      others == SelectSeq(G1.nodes, LAMBDA n : n # node_id)
      all == [x \in 1..Len(others) |->
                [j |-> others[x], d |-> haversine_km(lat, Lat(G1, others[1]))]]
      dists == SortByDist(SelectSeq(all, LAMBDA e : e.d <= max_dist_km))
  IN  AddEdgesFrom(G1, node_id, Take(dists, k_neighbors))

\* add_virtual_node without the test that leaves the new node itself out
add_virtual_node_self(G, node_id, lat, k_neighbors, max_dist_km) ==
  LET G1 == add_node(G, node_id, lat)
      others == G1.nodes
      all == [x \in 1..Len(others) |->
                [j |-> others[x], d |-> haversine_km(lat, Lat(G1, others[x]))]]
      dists == SortByDist(SelectSeq(all, LAMBDA e : e.d <= max_dist_km))
  IN  AddEdgesFrom(G1, node_id, Take(dists, k_neighbors))

\* add_virtual_node without the test for a node id that is present
VirtualNodeExists_never(G, node_id) == FALSE

\* whether add_virtual_node raises ValueError (duplicate node id)
VirtualNodeExists(G, node_id) == HasNode(G, node_id)

\* add_virtual_node(G, node_id, lat, lon, k_neighbors, max_dist_km) when it
\* does not raise
add_virtual_node(G, node_id, lat, k_neighbors, max_dist_km) ==
  LET G1 == add_node(G, node_id, lat)
      others == SelectSeq(G1.nodes, LAMBDA n : n # node_id)
      all == [x \in 1..Len(others) |->
                [j |-> others[x], d |-> haversine_km(lat, Lat(G1, others[x]))]]
      dists == SortByDist(SelectSeq(all, LAMBDA e : e.d <= max_dist_km))
  IN  AddEdgesFrom(G1, node_id, Take(dists, k_neighbors))

\* nearest_station(G, lat, lon, radius_km): <<>> for None, else <<id, dist>>
RECURSIVE NearestScan(_, _, _, _, _)
NearestScan(G, lat, i, best_id, best_dist) ==
  IF i > Len(G.nodes) THEN <<best_id, best_dist>>
  ELSE LET d == haversine_km(lat, G.lat[i])
       IN  IF d < best_dist THEN NearestScan(G, lat, i + 1, <<G.nodes[i]>>, d)
           ELSE NearestScan(G, lat, i + 1, best_id, best_dist)

\* nearest_station leaving out a node at exactly radius_km
nearest_station_strict(G, lat, radius_km) ==
  LET r == NearestScan(G, lat, 1, <<>>, INF)
  IN  IF r[1] # <<>> /\ r[2] < radius_km THEN <<r[1][1], r[2]>> ELSE <<>>

nearest_station(G, lat, radius_km) ==
  LET r == NearestScan(G, lat, 1, <<>>, INF)
  IN  IF r[1] # <<>> /\ r[2] <= radius_km THEN <<r[1][1], r[2]>> ELSE <<>>

\* add_map_routes(G, routes): a route is [from, to, distance_km]
RECURSIVE add_map_routes(_, _)
add_map_routes(G, routes) ==
  IF routes = <<>> THEN G
  ELSE LET r == Head(routes)
           G2 == IF ~HasNode(G, r.from) \/ ~HasNode(G, r.to) THEN G
                 ELSE add_edge(G, r.from, r.to, r.distance_km)
       IN  add_map_routes(G2, Tail(routes))

\* _edge_distance: data.get("distance", data.get("distance_km", inf))
edge_distance(G, u, v) == EdgeDist(G, u, v)

\* nx.shortest_path_length(G, source, target, weight=_edge_distance):
\* RelaxRow is one round of relaxation (the new distance of the nodes from
\* index i on), Relax repeats it once per node
RECURSIVE RelaxRow(_, _, _)
RelaxRow(G, D, i) ==
  IF i > Len(G.nodes) THEN <<>>
  ELSE LET via == {D[IndexOf(G.nodes, u)] + edge_distance(G, u, G.nodes[i]) :
                     u \in {x \in Range(G.adj[i]) : D[IndexOf(G.nodes, x)] < INF}}
           best == IF via = {} THEN INF ELSE CHOOSE m \in via : \A o \in via : m <= o
       IN  <<Min2(D[i], best)>> \o RelaxRow(G, D, i + 1)

RECURSIVE Relax(_, _, _)
Relax(G, D, rounds) ==
  IF rounds = 0 THEN D ELSE Relax(G, RelaxRow(G, D, 1), rounds - 1)

\* INF stands for NetworkXNoPath / NodeNotFound
shortest_path_length(G, source, target) ==
  IF ~HasNode(G, source) \/ ~HasNode(G, target) THEN INF
  ELSE LET i0 == IndexOf(G.nodes, source)
           D0 == [i \in 1..Len(G.nodes) |-> IF i = i0 THEN 0 ELSE INF]
       IN  Relax(G, D0, Len(G.nodes))[IndexOf(G.nodes, target)]

\* --------------------------------------------------------- station table
StationIds(stations) == {stations[i].id : i \in 1..Len(stations)}

\* stations_index.loc[[node]].iloc[0]: the first row with that id
StationRow(stations, node) ==
  stations[CHOOSE i \in 1..Len(stations) :
             /\ stations[i].id = node
             /\ \A j \in 1..(i - 1) : stations[j].id # node]

\* ------------------------------------------------------------ heapq
\* Python's < on the frontier tuples (cost, counter, state) of UCS and
\* (f, g, counter, state) of A*: the first position where the two differ
\* (by ==) decides; an entry is [key |-> <<cost>> or <<f, g>>, tie, st]
RECURSIVE KeyLt(_, _, _)
KeyLt(a, b, i) ==
  IF i > Len(a.key) THEN a.tie < b.tie
  ELSE IF FEq(a.key[i], b.key[i]) THEN KeyLt(a, b, i + 1)
  ELSE FLt(a.key[i], b.key[i])

TupleLt(a, b) == KeyLt(a, b, 1)

\* heapq._siftdown (positions are 1-based here: the parent of p is p \div 2)
RECURSIVE SiftDown(_, _, _, _)
SiftDown(heap, startpos, pos, newitem) ==
  IF pos > startpos /\ TupleLt(newitem, heap[pos \div 2])
  THEN SiftDown([heap EXCEPT ![pos] = heap[pos \div 2]], startpos, pos \div 2, newitem)
  ELSE [heap EXCEPT ![pos] = newitem]

heappush(heap, item) == SiftDown(Append(heap, item), 1, Len(heap) + 1, item)

\* the loop of heapq._siftup: the smaller child moves up until a leaf is hit
RECURSIVE SiftUpLoop(_, _)
SiftUpLoop(heap, pos) ==
  LET childpos == 2 * pos
      rightpos == childpos + 1
      c == IF rightpos <= Len(heap) /\ ~TupleLt(heap[childpos], heap[rightpos])
           THEN rightpos ELSE childpos
  IN  IF childpos <= Len(heap)
      THEN SiftUpLoop([heap EXCEPT ![pos] = heap[c]], c)
      ELSE <<heap, pos>>

SiftUp(heap, pos) ==
  LET newitem == heap[pos]
      r == SiftUpLoop(heap, pos)
  IN  SiftDown(r[1], pos, r[2], newitem)

\* heappop(heap) = <<item, heap afterwards>>
heappop(heap) ==
  LET lastelt == heap[Len(heap)]
      rest == SubSeq(heap, 1, Len(heap) - 1)
  IN  IF rest = <<>> THEN <<lastelt, rest>>
      ELSE <<rest[1], SiftUp([rest EXCEPT ![1] = lastelt], 1)>>

\* ------------------------------------------------------------- search
State(node, battery_percent, path, total_distance_km, total_time_min, charges) ==
  [node |-> node, battery_percent |-> battery_percent, path |-> path,
   total_distance_km |-> total_distance_km, total_time_min |-> total_time_min,
   charges |-> charges]

FRound1(x) == IF x = NaN THEN NaN ELSE Round1(x)

ChargeEvent(station_id, arrive, leave, minutes, penalty) ==
  [station_id |-> station_id, arrive_soc |-> Round1(arrive),
   leave_soc |-> Round1(leave), charge_minutes |-> FRound1(minutes),
   penalty_minutes |-> Round1(penalty)]

\* the charge-at-current-node branch for one neighbour (rule 3)
ChargeHere(stations, s, neighbor, need_percent, penalty) ==
  IF s.node \notin StationIds(stations) THEN <<>>
  ELSE LET power_kw == StationRow(stations, s.node).power
           desired_after_arrival == safe_threshold_percent + need_percent
           target_percent ==
             Min2(Max2(desired_after_arrival, s.battery_percent), charge_target_percent)
           delta_percent == target_percent - s.battery_percent
           charge_minutes == charge_time_minutes(power_kw, delta_percent)
       IN  IF PowerTruthyPositive(power_kw) /\ target_percent > s.battery_percent
           THEN <<[kind |-> "charge", via |-> neighbor,
                   st |-> State(s.node, target_percent,
                                Append(s.path, "Charge@" \o s.node),
                                s.total_distance_km,
                                FAdd(FAdd(s.total_time_min, charge_minutes), penalty),
                                Append(s.charges,
                                       ChargeEvent(s.node, s.battery_percent,
                                                   target_percent, charge_minutes,
                                                   penalty)))]>>
           ELSE <<>>

\* the neighbour loop going on to the move after it has pushed a charge
NeighborTransition_charge_and_move(G, stations, s, neighbor, penalty) ==
  LET dist == edge_distance(G, s.node, neighbor)
      need_percent == NeedPercent(dist)
      new_batt == s.battery_percent - need_percent
      move == <<[kind |-> "move", via |-> neighbor,
                 st |-> State(neighbor, new_batt, Append(s.path, neighbor),
                              s.total_distance_km + dist,
                              FAdd(s.total_time_min, DriveTime(dist)),
                              s.charges)]>>
  IN  IF need_percent > s.battery_percent THEN <<>>
      ELSE IF s.battery_percent - need_percent < safe_threshold_percent
      THEN ChargeHere(stations, s, neighbor, need_percent, penalty) \o move
      ELSE IF new_batt < 0 THEN <<>>
      ELSE move

\* the neighbour loop with a move that leaves the distance total as it was
NeighborTransition_no_sum(G, stations, s, neighbor, penalty) ==
  LET dist == edge_distance(G, s.node, neighbor)
      need_percent == NeedPercent(dist)
      new_batt == s.battery_percent - need_percent
  IN  IF need_percent > s.battery_percent THEN <<>>
      ELSE IF s.battery_percent - need_percent < safe_threshold_percent
      THEN ChargeHere(stations, s, neighbor, need_percent, penalty)
      ELSE IF new_batt < 0 THEN <<>>
      ELSE <<[kind |-> "move", via |-> neighbor,
              st |-> State(neighbor, new_batt, Append(s.path, neighbor),
                           s.total_distance_km,
                           FAdd(s.total_time_min, DriveTime(dist)),
                           s.charges)]>>

\* the body of "for neighbor in G.neighbors(state.node)" for one neighbour:
\* the pushes it makes, as a sequence of at most one
NeighborTransition(G, stations, s, neighbor, penalty) ==
  LET dist == edge_distance(G, s.node, neighbor)
      need_percent == NeedPercent(dist)
      new_batt == s.battery_percent - need_percent
  IN  IF need_percent > s.battery_percent THEN <<>>
      ELSE IF s.battery_percent - need_percent < safe_threshold_percent
      THEN ChargeHere(stations, s, neighbor, need_percent, penalty)
      ELSE IF new_batt < 0 THEN <<>>
      ELSE <<[kind |-> "move", via |-> neighbor,
              st |-> State(neighbor, new_batt, Append(s.path, neighbor),
                           s.total_distance_km + dist,
                           FAdd(s.total_time_min, DriveTime(dist)),
                           s.charges)]>>

\* candidates of the nearby search: the nearby_k stations nearest to the
\* current node by haversine distance, within max_search_distance_km
NearbyCandidates(stations, node, nearby_k) ==
  IF node \notin StationIds(stations) THEN <<>>
  ELSE LET cur_lat == StationRow(stations, node).lat
           rows == SelectSeq(stations, LAMBDA r : r.id # node)
           all == [x \in 1..Len(rows) |->
                     [j |-> rows[x].id, d |-> haversine_km(cur_lat, rows[x].lat),
                      row |-> rows[x]]]
           near == SelectSeq(all, LAMBDA c : c.d <= max_search_distance_km)
       IN  Take(SortByDist(near), Max2(0, nearby_k))

\* the nearby search without the test that the SOC covers the way
CannotAfford_never(need_percent_to_cand, battery_percent) == FALSE

\* whether the nearby loop skips a candidate because it cannot be afforded
CannotAfford(need_percent_to_cand, battery_percent) ==
  need_percent_to_cand > battery_percent

\* the body of the nearby loop for one candidate
NearbyTransition(G, s, cand, penalty) ==
  LET sp_dist == shortest_path_length(G, s.node, cand.j)
      need_percent_to_cand == NeedPercent(sp_dist)
      power_kw == cand.row.power
      target_percent == charge_target_percent
      delta_percent == target_percent - s.battery_percent
      charge_minutes == charge_time_minutes(power_kw, delta_percent)
  IN  IF sp_dist >= INF THEN <<>>
      ELSE IF CannotAfford(need_percent_to_cand, s.battery_percent) THEN <<>>
      ELSE IF PowerNoneOrNonPositive(power_kw) THEN <<>>
      ELSE IF target_percent <= s.battery_percent THEN <<>>
      ELSE <<[kind |-> "nearby", via |-> cand.j,
              st |-> State(cand.j, target_percent,
                           s.path \o <<"Drive->" \o cand.j, "Charge@" \o cand.j>>,
                           s.total_distance_km + sp_dist,
                           FAdd(FAdd(FAdd(s.total_time_min, DriveTime(sp_dist)),
                                     charge_minutes), penalty),
                           Append(s.charges,
                                  ChargeEvent(cand.j,
                                              s.battery_percent - need_percent_to_cand,
                                              target_percent, charge_minutes,
                                              penalty)))]>>

RECURSIVE NeighborPushes(_, _, _, _, _)
NeighborPushes(G, stations, s, nbrs, penalty) ==
  IF nbrs = <<>> THEN <<>>
  ELSE NeighborTransition(G, stations, s, Head(nbrs), penalty)
         \o NeighborPushes(G, stations, s, Tail(nbrs), penalty)

RECURSIVE NearbyPushes(_, _, _, _)
NearbyPushes(G, s, cands, penalty) ==
  IF cands = <<>> THEN <<>>
  ELSE NearbyTransition(G, s, Head(cands), penalty)
         \o NearbyPushes(G, s, Tail(cands), penalty)

\* every push of one expansion of state s, in the order the code makes them
Expansion(G, in, s) ==
  NeighborPushes(G, in.stations, s, Adj(G, s.node), in.charge_penalty_minutes)
    \o (IF in.enable_nearby_search
        THEN NearbyPushes(G, s, NearbyCandidates(in.stations, s.node, in.nearby_k),
                          in.charge_penalty_minutes)
        ELSE <<>>)

\* the heuristic reckoned at half the speed of the drive times
Heuristic_half_speed(G, node, end) ==
  IF HasNode(G, node) /\ HasNode(G, end)
  THEN 2 * DriveTimeH(haversine_km(Lat(G, node), Lat(G, end)))
  ELSE 0

\* the A* heuristic of a node; 0 when a coordinate lookup raises
Heuristic(G, node, end) ==
  IF HasNode(G, node) /\ HasNode(G, end)
  THEN DriveTimeH(haversine_km(Lat(G, node), Lat(G, end)))
  ELSE 0

\* the frontier tuple of a state
Entry(G, in, st, tie) ==
  [key |-> IF in.algo = "astar"
           THEN <<FAdd(st.total_time_min, Heuristic(G, st.node, in.end)),
                  st.total_time_min>>
           ELSE <<st.total_time_min>>,
   tie |-> tie, st |-> st]

RECURSIVE PushAll(_, _, _, _, _)
PushAll(G, in, heap, pushes, tie) ==
  IF pushes = <<>> THEN heap
  ELSE PushAll(G, in, heappush(heap, Entry(G, in, Head(pushes).st, tie)),
               Tail(pushes), tie + 1)

\* the g value of a popped tuple: cost for UCS, g for A*
EntryCost(e) == e.key[Len(e.key)]

\* key = (state.node, round(state.battery_percent, 1))
VisitedKey(st) == <<st.node, Round1(st.battery_percent)>>

\* the dominance test letting a state of equal cost through
Dominated_strict(visited, e) ==
  \E v \in visited : v.key = VisitedKey(e.st) /\ FLt(v.cost, EntryCost(e))

\* "key in visited and visited[key] <= cost"
Dominated(visited, e) ==
  \E v \in visited : v.key = VisitedKey(e.st) /\ FLe(v.cost, EntryCost(e))

VisitedPut(visited, e) ==
  {v \in visited : v.key # VisitedKey(e.st)}
    \cup {[key |-> VisitedKey(e.st), cost |-> EntryCost(e)]}

NoPath == [kind |-> "none", path |-> <<>>, dist |-> 0, time |-> 0, charges |-> <<>>]
Running == [kind |-> "running", path |-> <<>>, dist |-> 0, time |-> 0, charges |-> <<>>]
Found(st) == [kind |-> "path", path |-> st.path, dist |-> st.total_distance_km,
              time |-> st.total_time_min, charges |-> st.charges]

\* ------------------------------------------------------------- inputs
Ids == <<"ST01", "ST02", "ST03", "ST04">>

\* latitudes (km along the meridian) offered for the four stations
Layouts == {<<0, 50, 130, 250>>, <<0, 50, 60, 300>>}

\* power_kw columns offered for the four stations
PowerProfiles ==
  {<<PNum(24), PNum(24), PNum(24), PNum(24)>>,
   <<PNone, PNum(24), PNum(0), PNum(12)>>,
   <<PNum(12), PNone, PNum(-5), PNum(24)>>}

\* the same with rows whose power_kw is the missing value
PowerProfilesNaN ==
  {<<PNum(24), PNaN, PNum(24), PNaN>>, <<PNaN, PNum(24), PNaN, PNum(12)>>}

MkStations(lats, powers) ==
  [i \in 1..Len(Ids) |-> [id |-> Ids[i], lat |-> lats[i], power |-> powers[i]]]

\* the graphs offered: build_graph in either mode, then optionally a road
\* segment added by add_map_routes
GraphModes == {"knn1", "bound", "knn1+route"}

RoadSegments == <<[from |-> "ST02", to |-> "ST03", distance_km |-> 90]>>

MkGraph(stations, mode) ==
  IF mode = "bound" THEN build_graph(stations, 200, <<>>)
  ELSE IF mode = "knn1" THEN build_graph(stations, 200, <<1>>)
  ELSE add_map_routes(build_graph(stations, 200, <<1>>), RoadSegments)

StartSocs == {50000, 38750, 10000}

NearbyConfigs == {[on |-> FALSE, k |-> 5], [on |-> TRUE, k |-> 1], [on |-> TRUE, k |-> 5]}

SearchInputs(profiles) ==
  [algo : {"ucs", "astar"},
   stations : {MkStations(l, p) : l \in Layouts, p \in profiles},
   mode : GraphModes,
   start : {"ST01"},
   end : {"ST02", "ST04"},
   battery_percent : StartSocs,
   nearby : NearbyConfigs,
   charge_penalty_minutes : {0, 5000},
   max_expansions : {SmallBudget, LargeBudget}]

\* ------------------------------------------------------------- state
VARIABLES
  pc,          \* control location of the running operation
  inp,         \* the arguments of the running operation
  G,           \* the graph instance handed to the search and the simulators
  pq,          \* the frontier (a heapq list)
  visited,     \* the visited dict, as a set of [key, cost]
  counter,     \* the next value of itertools.count()
  expansions,  \* the expansions counter
  result,      \* what the search returned
  last,        \* history: the state expanded last and the pushes made for it
  popped,      \* history: the number of heappop calls made
  sim,         \* the local variables of the running simulator
  plan,        \* the local variables of plan_route
  ev,          \* the local variables of evaluate_routes
  first        \* history: what the first of two identical runs returned

vars == <<pc, inp, G, pq, visited, counter, expansions, result, last, popped, sim,
          plan, ev, first>>

\* evaluate_routes' locals while evaluate_routes does not run
NoEval == [idx |-> 0, results |-> <<>>, outcome |-> "idle"]

\* plan_route's locals while plan_route does not run
NoPlan ==
  [G |-> EmptyGraph, start_sel |-> <<>>, end_sel |-> <<>>, start_node |-> "",
   end_node |-> "", stations_mod |-> <<>>, cfg |-> <<>>, output |-> ""]

\* the simulator's locals before any simulation has started; soc_trace (the
\* SOC after each leg), seg_charges (the number of charging events recorded
\* when the current segment began) and G0 (the graph on entry) are history
NoSim ==
  [i |-> 0, soc |-> 0, total_distance |-> 0, total_driving_time |-> 0,
   total_charging_time |-> 0, charges |-> <<>>, detour_polylines |-> <<>>,
   tmp_counter |-> 0, tmp_node |-> "", stage |-> "seg", outcome |-> "idle",
   ret |-> <<>>,
   soc_trace |-> <<>>, seg_charges |-> 0, G0 |-> EmptyGraph]

\* last before any expansion; last.seen is the key and the accumulated time
\* of every state expanded so far
NoExpansion == [st |-> State("", 0, <<>>, 0, 0, <<>>), pushes |-> <<>>, seen |-> {}]

\* the arguments as the search functions see them
SearchArgs(i) ==
  [algo |-> i.algo, stations |-> i.stations, start |-> i.start, end |-> i.end,
   battery_percent |-> i.battery_percent,
   enable_nearby_search |-> i.nearby.on, nearby_k |-> i.nearby.k,
   charge_penalty_minutes |-> i.charge_penalty_minutes,
   max_expansions |-> i.max_expansions]

\* the state of ucs_ev_search / astar_ev_search on entry to the while loop
SearchEntry(g, in) ==
  /\ pc = "search"
  /\ inp = in
  /\ G = g
  /\ pq = heappush(<<>>, Entry(g, in, State(in.start, in.battery_percent,
                                            <<in.start>>, 0, 0, <<>>), 0))
  /\ visited = {}
  /\ counter = 1
  /\ expansions = 0
  /\ result = Running
  /\ last = NoExpansion
  /\ popped = 0
  /\ sim = NoSim
  /\ plan = NoPlan
  /\ ev = NoEval
  /\ first = <<>>

InitSearchOver(profiles) ==
  \E i \in SearchInputs(profiles) :
    SearchEntry(MkGraph(i.stations, i.mode), SearchArgs(i))

InitSearch == InitSearchOver(PowerProfiles)

\* a loop that never takes the budget exit
BudgetExceeded_never(n, max_expansions) == FALSE

\* "expansions += 1; if expansions > max_expansions"
BudgetExceeded(n, max_expansions) == n > max_expansions

\* the loop ends by the budget: return None, None, None, None
SearchBudget ==
  /\ pc = "search" /\ pq # <<>>
  /\ BudgetExceeded(expansions + 1, inp.max_expansions)
  /\ expansions' = expansions + 1
  /\ result' = NoPath
  /\ pc' = "done"
  /\ UNCHANGED <<ev, first, plan, inp, G, pq, visited, counter, last, popped, sim>>

\* the popped state is at the goal: return its path and totals
SearchGoal ==
  /\ pc = "search" /\ pq # <<>>
  /\ ~BudgetExceeded(expansions + 1, inp.max_expansions)
  /\ LET e == heappop(pq)[1]
     IN  /\ e.st.node = inp.end
         /\ result' = Found(e.st)
  /\ pq' = heappop(pq)[2]
  /\ expansions' = expansions + 1
  /\ popped' = popped + 1
  /\ pc' = "done"
  /\ UNCHANGED <<ev, first, plan, inp, G, visited, counter, last, sim>>

\* the popped state is dominated by a visited one: continue
SearchDominated ==
  /\ pc = "search" /\ pq # <<>>
  /\ ~BudgetExceeded(expansions + 1, inp.max_expansions)
  /\ LET e == heappop(pq)[1]
     IN  /\ e.st.node # inp.end
         /\ Dominated(visited, e)
  /\ pq' = heappop(pq)[2]
  /\ expansions' = expansions + 1
  /\ popped' = popped + 1
  /\ UNCHANGED <<ev, first, plan, pc, inp, G, visited, counter, result, last, sim>>

\* the popped state is expanded: neighbours, then the nearby search
SearchExpand ==
  /\ pc = "search" /\ pq # <<>>
  /\ ~BudgetExceeded(expansions + 1, inp.max_expansions)
  /\ LET e == heappop(pq)[1]
         pushes == Expansion(G, inp, e.st)
     IN  /\ e.st.node # inp.end
         /\ ~Dominated(visited, e)
         /\ HasNode(G, e.st.node)
         /\ visited' = VisitedPut(visited, e)
         /\ pq' = PushAll(G, inp, heappop(pq)[2], pushes, counter)
         /\ counter' = counter + Len(pushes)
         /\ last' = [st |-> e.st, pushes |-> pushes,
                      seen |-> last.seen \cup {[key |-> VisitedKey(e.st),
                                                time |-> e.st.total_time_min]}]
  /\ expansions' = expansions + 1
  /\ popped' = popped + 1
  /\ UNCHANGED <<ev, first, plan, pc, inp, G, result, sim>>

\* the frontier is empty: return None, None, None, None
SearchExhausted ==
  /\ pc = "search" /\ pq = <<>>
  /\ result' = NoPath
  /\ pc' = "done"
  /\ UNCHANGED <<ev, first, plan, inp, G, pq, visited, counter, expansions, last, popped, sim>>

NextSearch ==
  \/ SearchBudget
  \/ SearchGoal
  \/ SearchDominated
  \/ SearchExpand
  \/ SearchExhausted

SpecSearch == InitSearch /\ [][NextSearch]_vars

\* ------------------------------------------------- simulate_single_route
searchVars == <<pq, visited, counter, expansions, result, last, popped>>

\* the search's variables while no search runs
SearchIdle ==
  /\ pq = <<>> /\ visited = {} /\ counter = 0 /\ expansions = 0
  /\ result = Running /\ last = NoExpansion /\ popped = 0

Routes ==
  {<<>>, <<"ST01">>, <<"ST01", "ST02">>, <<"ST01", "ST02", "ST03">>,
   <<"ST01", "ST02", "ST03", "ST04">>, <<"ST02", "ST01">>,
   <<"ST01", "Charge@ST01", "ST02">>, <<"ST03", "ST04">>}

SimSocs == StartSocs \cup {68750, 100000}

RouteInputs ==
  [stations : {MkStations(l, p) : l \in Layouts, p \in PowerProfiles},
   mode : {"knn1", "bound"},
   route : Routes,
   battery_percent_start : SimSocs]

\* the return value of a simulator: the dict, as a one-element sequence
SimDict(m) ==
  <<[total_distance_km |-> Round3(m.total_distance),
     total_driving_time_min |-> Round1(m.total_driving_time),
     total_charging_time_min |-> Round1(m.total_charging_time),
     total_time_min |-> Round1(m.total_driving_time + m.total_charging_time),
     charges |-> m.charges,
     detour_polylines |-> m.detour_polylines,
     feasible |-> TRUE]>>

SimEntry(g, in, kind) ==
  /\ pc = kind
  /\ inp = in
  /\ G = g
  /\ SearchIdle
  /\ sim = [NoSim EXCEPT !.i = 1, !.soc = in.battery_percent_start,
                         !.outcome = "running", !.G0 = g]
  /\ plan = NoPlan
  /\ ev = NoEval
  /\ first = <<>>

InitRoute ==
  \E i \in RouteInputs :
    SimEntry(MkGraph(i.stations, i.mode),
             [stations |-> i.stations, route |-> i.route,
              battery_percent_start |-> i.battery_percent_start],
             "route")

\* a dict appended to charges by a simulator
SimChargeEvent(station_id, arrive, leave, minutes, detour_km) ==
  [station_id |-> station_id, arrive_soc |-> Round2(arrive),
   leave_soc |-> Round2(leave), charge_minutes |-> Round1(minutes),
   detour_km |-> detour_km]

HopNeed(stations, cur, nxt) ==
  NeedPercent(haversine_km(StationRow(stations, cur).lat, StationRow(stations, nxt).lat))

\* the charging test with the threshold itself counted as below it
BelowThresholdAfter_inclusive(soc, need_percent) ==
  soc - need_percent <= safe_threshold_percent

\* the simulators' test for charging before a segment
BelowThresholdAfter(soc, need_percent) == soc - need_percent < safe_threshold_percent

\* "if not route_node_ids: return None"
RouteEmpty ==
  /\ pc = "route" /\ sim.outcome = "running"
  /\ inp.route = <<>>
  /\ sim' = [sim EXCEPT !.outcome = "none"]
  /\ UNCHANGED <<ev, first, plan, pc, inp, G, searchVars>>

\* the loop is over: return the dict
RouteReturn ==
  /\ pc = "route" /\ sim.outcome = "running"
  /\ inp.route # <<>> /\ sim.i > Len(inp.route) - 1
  /\ sim' = [sim EXCEPT !.outcome = "feasible", !.ret = SimDict(sim)]
  /\ UNCHANGED <<ev, first, plan, pc, inp, G, searchVars>>

\* stations_index.loc[cur] or .loc[nxt] raises: return None
RouteLookupFails ==
  /\ pc = "route" /\ sim.outcome = "running"
  /\ sim.i <= Len(inp.route) - 1
  /\ \/ inp.route[sim.i] \notin StationIds(inp.stations)
     \/ inp.route[sim.i + 1] \notin StationIds(inp.stations)
  /\ sim' = [sim EXCEPT !.outcome = "none"]
  /\ UNCHANGED <<ev, first, plan, pc, inp, G, searchVars>>

\* the candidate loops read row["id"] from rows of stations_index, whose id
\* column was consumed by set_index: the lookup raises KeyError.  They are
\* entered when the hop needs more than the SOC, and when the SOC after the
\* hop is below the threshold and no charge was made at the current station.
RouteCandidatesRaise ==
  /\ pc = "route" /\ sim.outcome = "running"
  /\ sim.i <= Len(inp.route) - 1
  /\ inp.route[sim.i] \in StationIds(inp.stations)
  /\ inp.route[sim.i + 1] \in StationIds(inp.stations)
  /\ LET cur == inp.route[sim.i]
         need_percent == HopNeed(inp.stations, cur, inp.route[sim.i + 1])
         power_kw == StationRow(inp.stations, cur).power
     IN  \/ need_percent > sim.soc
         \/ /\ BelowThresholdAfter(sim.soc, need_percent)
            /\ ~(PowerTruthyPositive(power_kw) /\ charge_target_percent > sim.soc)
  /\ sim' = [sim EXCEPT !.outcome = "KeyError"]
  /\ UNCHANGED <<ev, first, plan, pc, inp, G, searchVars>>

\* one iteration that reaches "total_distance += seg_dist": an optional
\* charge at the current station, then the drive
RouteHop ==
  /\ pc = "route" /\ sim.outcome = "running"
  /\ sim.i <= Len(inp.route) - 1
  /\ inp.route[sim.i] \in StationIds(inp.stations)
  /\ inp.route[sim.i + 1] \in StationIds(inp.stations)
  /\ LET cur == inp.route[sim.i]
         nxt == inp.route[sim.i + 1]
         seg_dist == haversine_km(StationRow(inp.stations, cur).lat,
                                  StationRow(inp.stations, nxt).lat)
         need_percent == NeedPercent(seg_dist)
         power_kw == StationRow(inp.stations, cur).power
         charge == /\ BelowThresholdAfter(sim.soc, need_percent)
                   /\ PowerTruthyPositive(power_kw)
                   /\ charge_target_percent > sim.soc
         delta_percent == charge_target_percent - sim.soc
         charge_min == charge_time_minutes(power_kw, delta_percent)
         soc1 == IF charge THEN Min2(100000, sim.soc + delta_percent) ELSE sim.soc
         soc2 == soc1 - need_percent
     IN  /\ ~(need_percent > sim.soc)
         /\ BelowThresholdAfter(sim.soc, need_percent) => charge
         /\ sim' =
              IF soc2 < 0
              THEN [sim EXCEPT !.outcome = "none", !.soc = soc2]
              ELSE [sim EXCEPT
                      !.i = @ + 1,
                      !.soc = soc2,
                      !.total_distance = @ + seg_dist,
                      !.total_driving_time = @ + DriveTime(seg_dist),
                      !.total_charging_time = IF charge THEN @ + charge_min ELSE @,
                      !.charges = IF charge
                                  THEN Append(@, SimChargeEvent(cur, sim.soc, soc1,
                                                                charge_min, 0))
                                  ELSE @,
                      !.seg_charges = Len(sim.charges) + (IF charge THEN 1 ELSE 0),
                      !.soc_trace = Append(@, soc2)]
  /\ UNCHANGED <<ev, first, plan, pc, inp, G, searchVars>>

NextRoute ==
  \/ RouteEmpty
  \/ RouteReturn
  \/ RouteLookupFails
  \/ RouteCandidatesRaise
  \/ RouteHop

SpecRoute == InitRoute /\ [][NextRoute]_vars

\* --------------------------------------------------------- evaluate_routes
EvalRoutes ==
  {<<>>, <<"ST01", "ST02">>, <<"ST01", "ST02", "ST03">>, <<"ST02", "ST01">>,
   <<"ST03", "ST04">>, <<"ST01", "Charge@ST01", "ST02">>}

\* the longest candidate_routes tried
MaxCandidates == 3

EvalInputs ==
  [stations : {MkStations(<<0, 50, 130, 250>>, p) : p \in PowerProfiles},
   candidate_routes : UNION {[1..n -> EvalRoutes] : n \in 0..MaxCandidates},
   sort_by : {"time", "distance", "charges", "none"},
   battery_percent_start : {100000, 50000}]

\* the sort key of the lambdas: infinity for an entry that is not feasible
EvalKey(x, sort_by) ==
  IF ~x.feasible THEN INF
  ELSE CASE sort_by = "time" -> x.res[1].total_time_min
         [] sort_by = "distance" -> x.res[1].total_distance_km
         [] sort_by = "charges" -> Len(x.res[1].charges)
         [] OTHER -> 0

\* x put into a sorted list behind every entry whose key is not larger
RECURSIVE EvalInsert(_, _, _)
EvalInsert(sorted, x, sort_by) ==
  IF sorted = <<>> THEN <<x>>
  ELSE IF EvalKey(x, sort_by) < EvalKey(Head(sorted), sort_by)
       THEN <<x>> \o sorted
       ELSE <<Head(sorted)>> \o EvalInsert(Tail(sorted), x, sort_by)

\* results.sort(key=...): list.sort is stable
RECURSIVE EvalSortFrom(_, _, _)
EvalSortFrom(sorted, rest, sort_by) ==
  IF rest = <<>> THEN sorted
  ELSE EvalSortFrom(EvalInsert(sorted, Head(rest), sort_by), Tail(rest), sort_by)

EvalSort(results, sort_by) ==
  IF sort_by \in {"time", "distance", "charges"}
  THEN EvalSortFrom(<<>>, results, sort_by)
  ELSE results

\* evaluate_routes has been called: results = []
InitEval ==
  \E i \in EvalInputs :
    /\ pc = "eval"
    /\ inp = [stations |-> i.stations, candidate_routes |-> i.candidate_routes,
              sort_by |-> i.sort_by,
              battery_percent_start |-> i.battery_percent_start,
              route |-> <<>>]
    /\ G = MkGraph(i.stations, "knn1")
    /\ SearchIdle
    /\ sim = NoSim
    /\ plan = NoPlan
    /\ ev = [idx |-> 1, results |-> <<>>, outcome |-> "running"]
    /\ first = <<>>

\* "for route in candidate_routes: res = simulate_single_route(...)": the call
EvalCall ==
  /\ pc = "eval" /\ ev.outcome = "running"
  /\ ev.idx <= Len(inp.candidate_routes)
  /\ pc' = "route"
  /\ inp' = [inp EXCEPT !.route = inp.candidate_routes[ev.idx]]
  /\ sim' = [NoSim EXCEPT !.i = 1, !.soc = inp.battery_percent_start,
                          !.outcome = "running", !.G0 = G]
  /\ UNCHANGED <<ev, first, plan, G, searchVars>>

\* simulate_single_route has returned: None gives {"route", "feasible": False},
\* a dict is given its route; the entry is appended
EvalCollect ==
  /\ pc = "route" /\ ev.outcome = "running"
  /\ sim.outcome \in {"none", "feasible"}
  /\ ev' = [ev EXCEPT
              !.idx = @ + 1,
              !.results = Append(@, [route |-> inp.route,
                                     feasible |-> sim.outcome = "feasible",
                                     res |-> IF sim.outcome = "feasible"
                                             THEN sim.ret ELSE <<>>])]
  /\ pc' = "eval"
  /\ sim' = NoSim
  /\ UNCHANGED <<first, plan, inp, G, searchVars>>

\* simulate_single_route has raised: nothing catches it in evaluate_routes
EvalRaise ==
  /\ pc = "route" /\ ev.outcome = "running"
  /\ sim.outcome = "KeyError"
  /\ ev' = [ev EXCEPT !.outcome = "KeyError"]
  /\ pc' = "done"
  /\ UNCHANGED <<first, plan, inp, G, searchVars, sim>>

\* the loop is over: sort and return results
EvalReturn ==
  /\ pc = "eval" /\ ev.outcome = "running"
  /\ ev.idx > Len(inp.candidate_routes)
  /\ ev' = [ev EXCEPT !.outcome = "returned",
                      !.results = EvalSort(@, inp.sort_by)]
  /\ pc' = "done"
  /\ UNCHANGED <<first, plan, inp, G, searchVars, sim>>

NextEval ==
  \/ EvalCall
  \/ EvalCollect
  \/ EvalRaise
  \/ EvalReturn
  \/ NextRoute

SpecEval == InitEval /\ [][NextEval]_vars

\* ------------------------------------------------ simulate_along_polyline
nearby_k == 5
nearby_radius_km == 100
virtual_k_neighbors == 6
virtual_max_dist_km == 200

\* points (latitudes, km along the meridian) a polyline is made of
PolyPoints == {0, 40, 330}

Polylines == UNION {[1..n -> PolyPoints] : n \in 0..MaxPolyPoints}

\* the road router: not configured ("off"), configured and failing on every
\* request ("down"), or answering with a road that is RoadExtraKm longer
\* than the straight line ("road")
OsrmModes == {"off", "down", "road"}

RoadExtraKm == 12

PolyInputs ==
  [stations : {MkStations(l, p) : l \in {<<0, 50, 130, 250>>},
                                  p \in PowerProfiles \cup PowerProfilesNaN},
   mode : {"knn1", "bound"},
   polyline : Polylines,
   battery_percent_start : {50000, 10000},
   osrm : OsrmModes]

InitPoly ==
  \E i \in PolyInputs :
    SimEntry(MkGraph(i.stations, i.mode),
             [stations |-> i.stations, polyline |-> i.polyline,
              battery_percent_start |-> i.battery_percent_start,
              osrm |-> i.osrm],
             "poly")

\* _route_distance_and_geom_osrm: <<>> for (None, None), else <<dist, geom>>
route_distance_and_geom_osrm(osrm, lat1, slat) ==
  IF osrm = "road" THEN <<haversine_km(lat1, slat) + RoadExtraKm, <<lat1, slat>>>>
  ELSE <<>>

\* f"CUR_TMP_{next(tmp_counter)}"
TmpName(n) == "CUR_TMP_" \o ToString(n)

\* _add_tmp_node's effect on the graph
add_tmp_node(g, nid, lat) ==
  add_virtual_node(g, nid, lat, virtual_k_neighbors, virtual_max_dist_km)

\* a _remove_tmp_node that leaves the node in the graph
remove_tmp_node_keep(g, nid) == g

\* _remove_tmp_node's effect on the graph
remove_tmp_node(g, nid) == IF HasNode(g, nid) THEN remove_node(g, nid) ELSE g

\* candidates of a polyline detour: the nearby_k stations nearest to the
\* current point within nearby_radius_km
PolyCandidates(stations, lat1) ==
  LET all == [x \in 1..Len(stations) |->
                [j |-> stations[x].id, d |-> haversine_km(lat1, stations[x].lat),
                 row |-> stations[x]]]
      near == SelectSeq(all, LAMBDA c : c.d <= nearby_radius_km)
  IN  Take(SortByDist(near), nearby_k)

\* the detour leg to one candidate: <<>> when the candidate is skipped for
\* lack of a route, else <<detour_dist, detour_geom>>
DetourLeg(g, osrm, lat1, tmp_node, cand) ==
  LET o == route_distance_and_geom_osrm(osrm, lat1, cand.row.lat)
      sp_dist == shortest_path_length(g, tmp_node, cand.j)
  IN  IF osrm # "off" /\ o # <<>> THEN o
      ELSE IF sp_dist >= INF THEN <<>>
      ELSE <<sp_dist, <<>>>>

\* the candidate loop: chosen is <<>> for None, else a one-element sequence
RECURSIVE PolyChoose(_, _, _, _, _, _, _, _)
PolyChoose(g, osrm, soc, lat1, tmp_node, cands, chosen, best_added_time) ==
  IF cands = <<>> THEN chosen
  ELSE LET cand == Head(cands)
           leg == DetourLeg(g, osrm, lat1, tmp_node, cand)
           detour_dist == leg[1]
           need_percent_to_sid == NeedPercent(detour_dist)
           power_kw == cand.row.power
           delta_percent == Max2(0, charge_target_percent - soc)
           charge_min == charge_time_minutes(power_kw, delta_percent)
           added_time == FAdd((detour_dist * 60 * 1000) \div avg_speed_kmh, charge_min)
           skip == \/ leg = <<>>
                   \/ need_percent_to_sid > soc
                   \/ PowerNoneOrNonPositive(power_kw)
                   \/ ~FLt(added_time, best_added_time)
       IN  IF skip
           THEN PolyChoose(g, osrm, soc, lat1, tmp_node, Tail(cands), chosen,
                           best_added_time)
           ELSE PolyChoose(g, osrm, soc, lat1, tmp_node, Tail(cands),
                           <<[sid |-> cand.j, detour_km |-> detour_dist,
                              charge_min |-> charge_min,
                              delta_percent |-> delta_percent, geom |-> leg[2]]>>,
                           added_time)

PolyRunning == pc = "poly" /\ sim.outcome = "running"
PolyInLoop == PolyRunning /\ inp.polyline # <<>> /\ sim.i <= Len(inp.polyline) - 1
PolyNeed == NeedPercent(haversine_km(inp.polyline[sim.i], inp.polyline[sim.i + 1]))

\* "if not polyline: return None"
PolyEmpty ==
  /\ PolyRunning /\ inp.polyline = <<>>
  /\ sim' = [sim EXCEPT !.outcome = "none"]
  /\ UNCHANGED <<ev, first, plan, pc, inp, G, searchVars>>

\* the loop is over: return the dict
PolyReturn ==
  /\ PolyRunning /\ inp.polyline # <<>> /\ sim.i > Len(inp.polyline) - 1
  /\ sim.stage = "seg"
  /\ sim' = [sim EXCEPT !.outcome = "feasible", !.ret = SimDict(sim)]
  /\ UNCHANGED <<ev, first, plan, pc, inp, G, searchVars>>

\* "tmp_node = _add_tmp_node(lat1, lon1)", outside any try: the ValueError
\* of add_virtual_node for an id that is in the graph ends the call
AddTmpNode(stage) ==
  IF VirtualNodeExists(G, TmpName(sim.tmp_counter))
  THEN /\ G' = G
       /\ sim' = [sim EXCEPT !.tmp_counter = @ + 1, !.outcome = "ValueError"]
  ELSE /\ G' = add_tmp_node(G, TmpName(sim.tmp_counter), inp.polyline[sim.i])
       /\ sim' = [sim EXCEPT !.tmp_node = TmpName(sim.tmp_counter),
                             !.tmp_counter = @ + 1, !.stage = stage]

\* "if need_percent > soc: tmp_node = _add_tmp_node(lat1, lon1)"
PolyDetourAdd ==
  /\ PolyInLoop /\ sim.stage = "seg"
  /\ PolyNeed > sim.soc
  /\ AddTmpNode("detour")
  /\ UNCHANGED <<ev, first, plan, pc, inp, searchVars>>

PolyChosen ==
  PolyChoose(G, inp.osrm, sim.soc, inp.polyline[sim.i], sim.tmp_node,
             PolyCandidates(inp.stations, inp.polyline[sim.i]), <<>>, INF)

\* "if chosen is None: _remove_tmp_node(tmp_node); return None"
PolyDetourNone ==
  /\ PolyInLoop /\ sim.stage = "detour"
  /\ PolyChosen = <<>>
  /\ G' = remove_tmp_node(G, sim.tmp_node)
  /\ sim' = [sim EXCEPT !.outcome = "none"]
  /\ UNCHANGED <<ev, first, plan, pc, inp, searchVars>>

\* the detour is driven and the charge made; the finally clause removes the
\* temporary node; then "if need_percent > soc: return None"
PolyDetourCharge ==
  /\ PolyInLoop /\ sim.stage = "detour"
  /\ PolyChosen # <<>>
  /\ LET c == PolyChosen[1]
         soc1 == sim.soc - NeedPercent(c.detour_km)
         soc2 == Min2(100000, soc1 + c.delta_percent)
         m == [sim EXCEPT
                 !.total_distance = @ + c.detour_km,
                 !.total_driving_time = @ + (c.detour_km * 60 * 1000) \div avg_speed_kmh,
                 !.soc = soc2,
                 !.total_charging_time = @ + c.charge_min,
                 !.charges = Append(@, SimChargeEvent(c.sid, soc1, soc2, c.charge_min,
                                                      c.detour_km)),
                 !.detour_polylines = IF c.geom # <<>> THEN Append(@, c.geom) ELSE @,
                 !.soc_trace = Append(@, soc1),
                 !.stage = "pre"]
     IN  sim' = IF soc1 < 0 THEN [sim EXCEPT !.outcome = "none", !.soc = soc1]
                ELSE IF PolyNeed > soc2 THEN [m EXCEPT !.outcome = "none"]
                ELSE m
  /\ G' = remove_tmp_node(G, sim.tmp_node)
  /\ UNCHANGED <<ev, first, plan, pc, inp, searchVars>>

PolyAtPreCheck ==
  PolyInLoop /\ (sim.stage = "pre" \/ (sim.stage = "seg" /\ ~(PolyNeed > sim.soc)))

\* "if soc - need_percent < safe_threshold_percent: tmp_node = _add_tmp_node(...)"
PolyPreAdd ==
  /\ PolyAtPreCheck
  /\ BelowThresholdAfter(sim.soc, PolyNeed)
  /\ AddTmpNode("pretmp")
  /\ UNCHANGED <<ev, first, plan, pc, inp, searchVars>>

\* the body of the second try is "pass"; its finally clause removes the node
PolyPreRemove ==
  /\ PolyInLoop /\ sim.stage = "pretmp"
  /\ G' = remove_tmp_node(G, sim.tmp_node)
  /\ sim' = IF PolyNeed > sim.soc THEN [sim EXCEPT !.outcome = "none"]
            ELSE [sim EXCEPT !.stage = "drive"]
  /\ UNCHANGED <<ev, first, plan, pc, inp, searchVars>>

\* "Drive the segment"
PolyDrive ==
  /\ \/ PolyAtPreCheck /\ ~BelowThresholdAfter(sim.soc, PolyNeed)
     \/ PolyInLoop /\ sim.stage = "drive"
  /\ LET seg_dist == haversine_km(inp.polyline[sim.i], inp.polyline[sim.i + 1])
         soc2 == sim.soc - PolyNeed
     IN  sim' = IF soc2 < 0 THEN [sim EXCEPT !.outcome = "none", !.soc = soc2]
                ELSE [sim EXCEPT !.i = @ + 1, !.soc = soc2, !.stage = "seg",
                                 !.total_distance = @ + seg_dist,
                                 !.total_driving_time = @ + DriveTime(seg_dist),
                                 !.seg_charges = Len(sim.charges),
                                 !.soc_trace = Append(@, soc2)]
  /\ UNCHANGED <<ev, first, plan, pc, inp, G, searchVars>>

NextPoly ==
  \/ PolyEmpty
  \/ PolyReturn
  \/ PolyDetourAdd
  \/ PolyDetourNone
  \/ PolyDetourCharge
  \/ PolyPreAdd
  \/ PolyPreRemove
  \/ PolyDrive

SpecPoly == InitPoly /\ [][NextPoly]_vars

\* ---------------------------------------------------------------------------
\* two simulate_along_polyline calls interleaved on one graph object: sim and
\* inp are the locals and the arguments of the call that takes the next
\* step, first holds those of the other call
\* ---------------------------------------------------------------------------
ConcPolylines == UNION {[1..n -> PolyPoints] : n \in {0, 2}}

ConcInputs ==
  [polyline : ConcPolylines, battery_percent_start : {50000, 10000}]

ConcStations ==
  {MkStations(<<0, 50, 130, 250>>, p) :
     p \in {<<PNum(24), PNum(24), PNum(24), PNum(24)>>,
            <<PNone, PNum(24), PNum(0), PNum(12)>>}}

InitConc ==
  \E st \in ConcStations, a \in ConcInputs, b \in ConcInputs :
    LET g == MkGraph(st, "knn1")
        args(i) == [stations |-> st, polyline |-> i.polyline,
                    battery_percent_start |-> i.battery_percent_start,
                    osrm |-> "off"]
        entry(i) == [NoSim EXCEPT !.i = 1, !.soc = i.battery_percent_start,
                                  !.outcome = "running", !.G0 = g]
    IN  /\ pc = "poly"
        /\ G = g
        /\ inp = args(a)
        /\ sim = entry(a)
        /\ first = <<[inp |-> args(b), sim |-> entry(b)]>>
        /\ SearchIdle
        /\ plan = NoPlan
        /\ ev = NoEval

\* the other call takes the next steps
ConcSwitch ==
  /\ pc = "poly" /\ first # <<>>
  /\ first[1].sim.outcome = "running"
  /\ sim' = first[1].sim
  /\ inp' = first[1].inp
  /\ first' = <<[inp |-> inp, sim |-> sim]>>
  /\ UNCHANGED <<ev, plan, pc, G, searchVars>>

NextConc ==
  \/ NextPoly
  \/ ConcSwitch

SpecConc == InitConc /\ [][NextConc]_vars

\* either simulator
SpecSim == (InitRoute \/ InitPoly) /\ [][NextRoute \/ NextPoly]_vars

\* ------------------------------------------------------------ graph API
\* number of graph operations applied after build_graph
MaxGraphOps == 3

\* latitudes offered to build_graph: those of the searches and two far pairs
GraphLayouts == Layouts \cup {<<0, 10, 100, 110>>}

GraphStations ==
  {MkStations(l, p) : l \in GraphLayouts, p \in {<<PNone, PNone, PNone, PNone>>}}

VirtualIds == {"START", "END"}
VirtualLats == {20, 140}

MapRouteLists ==
  {<<[from |-> "ST02", to |-> "ST03", distance_km |-> 90]>>,
   <<[from |-> "ST01", to |-> "ST04", distance_km |-> 310],
     [from |-> "ST01", to |-> "NOWHERE", distance_km |-> 5]>>}

\* build_graph has returned; inp.call (the call made last), inp.raised
\* (whether it raised) and inp.roads are history
InitGraph ==
  \E st \in GraphStations, k \in {<<>>, <<1>>, <<2>>} :
    /\ pc = "graph"
    /\ inp = [stations |-> st, k_neighbors |-> k, ops |-> 0, raised |-> FALSE,
              roads |-> {}, call |-> <<>>]
    /\ G = build_graph(st, 200, k)
    /\ SearchIdle
    /\ sim = NoSim
    /\ plan = NoPlan
    /\ ev = NoEval
    /\ first = <<>>

GraphOpAllowed == pc = "graph" /\ inp.ops < MaxGraphOps

\* add_virtual_node on a fresh id
GraphAddVirtual ==
  /\ GraphOpAllowed
  /\ \E id \in VirtualIds, lat \in VirtualLats, k \in {1, 5} :
       /\ ~VirtualNodeExists(G, id)
       /\ G' = add_virtual_node(G, id, lat, k, 200)
       /\ inp' = [inp EXCEPT !.ops = @ + 1, !.raised = FALSE,
                              !.call = <<"add_virtual_node", id>>]
  /\ UNCHANGED <<ev, first, plan, pc, searchVars, sim>>

\* add_virtual_node on an id that is present: raise ValueError
GraphAddVirtualRaises ==
  /\ GraphOpAllowed
  /\ \E id \in VirtualIds :
       /\ VirtualNodeExists(G, id)
       /\ inp' = [inp EXCEPT !.ops = @ + 1, !.raised = TRUE,
                              !.call = <<"add_virtual_node", id>>]
  /\ UNCHANGED <<ev, first, plan, pc, G, searchVars, sim>>

\* the edges a list of routes stores, with the distance stored last
RoadsOf(g, routes) ==
  {[e |-> {routes[i].from, routes[i].to}, d |-> routes[i].distance_km] :
     i \in {k \in 1..Len(routes) :
              /\ HasNode(g, routes[k].from) /\ HasNode(g, routes[k].to)
              /\ \A m \in (k + 1)..Len(routes) :
                    {routes[m].from, routes[m].to} # {routes[k].from, routes[k].to}}}

\* add_map_routes; inp.roads is history: the edges that carry a distance
\* stored by add_map_routes
GraphAddMapRoutes ==
  /\ GraphOpAllowed
  /\ \E routes \in MapRouteLists :
       /\ G' = add_map_routes(G, routes)
       /\ inp' = [inp EXCEPT
                    !.ops = @ + 1, !.raised = FALSE,
                    !.call = <<"add_map_routes">>,
                    !.roads = {r \in @ : \A n \in RoadsOf(G, routes) : n.e # r.e}
                                \cup RoadsOf(G, routes)]
  /\ UNCHANGED <<ev, first, plan, pc, searchVars, sim>>

\* G.remove_node(n)
GraphRemoveNode ==
  /\ GraphOpAllowed
  /\ \E n \in NodeSet(G) :
       /\ G' = remove_node(G, n)
       /\ inp' = [inp EXCEPT !.ops = @ + 1, !.raised = FALSE,
                              !.call = <<"remove_node", n>>,
                              !.roads = {r \in @ : n \notin r.e}]
  /\ UNCHANGED <<ev, first, plan, pc, searchVars, sim>>

NextGraph ==
  \/ GraphAddVirtual
  \/ GraphAddVirtualRaises
  \/ GraphAddMapRoutes
  \/ GraphRemoveNode

SpecGraph == InitGraph /\ [][NextGraph]_vars

\* ---------------------------------------------------------------------------
\* nearest_station asked of a graph
\* ---------------------------------------------------------------------------

\* graphs handed to nearest_station: none of a node, those build_graph
\* returns, and those with a virtual node added
NearestGraphs ==
  LET built == {build_graph(st, 200, k) : st \in GraphStations, k \in {<<>>, <<2>>}}
  IN  {EmptyGraph} \cup built
        \cup {add_virtual_node(g, "START", lat, 1, 200) : g \in built, lat \in VirtualLats}

\* the place asked about and the radius (50 is the default of radius_km)
NearestLats == {0, 20, 75, 400}

NearestRadii == {0, 20, 50}

InitNearest ==
  /\ pc = "nearest"
  /\ G \in NearestGraphs
  /\ inp = [query |-> <<>>]
  /\ pq = <<>> /\ visited = {} /\ counter = 0 /\ expansions = 0
  /\ result = Running /\ last = NoExpansion /\ popped = 0
  /\ sim = NoSim /\ plan = NoPlan /\ ev = NoEval /\ first = <<>>

\* one call nearest_station(G, lat, lon, radius_km); inp.query keeps the
\* arguments and the value returned (<<>> for None)
NearestCall ==
  /\ pc = "nearest"
  /\ \E lat \in NearestLats, radius_km \in NearestRadii :
       inp' = [query |-> <<[lat |-> lat, radius_km |-> radius_km,
                            ret |-> nearest_station(G, lat, radius_km)]>>]
  /\ UNCHANGED <<ev, first, plan, G, pc, pq, visited, counter, expansions,
                 result, last, popped, sim>>

NextNearest == NearestCall

SpecNearest == InitNearest /\ [][NextNearest]_vars

\* ------------------------------------------------------------ plan_route
\* A resolved start or end: <<"id", station id>>, <<"coord", lat>>, or
\* <<"none">> when neither the station list nor the geocoders resolve it
Selections ==
  {<<"id", "ST01">>, <<"id", "ST02">>, <<"id", "ST04">>,
   <<"coord", 20>>, <<"coord", 140>>, <<"none">>}

PlanConfigs ==
  [use_astar : BOOLEAN, battery_percent : {50000, 100000},
   max_expansions : {SmallBudget, LargeBudget}]

\* the stations plan_route loads: the KML loader gives rows without power_kw
PlanStations == {MkStations(l, <<PNone, PNone, PNone, PNone>>) : l \in Layouts}

\* plan_route on entry, with start and end resolved; the road router gives
\* no route, so that the graph search is used
InitPlan ==
  \E st \in PlanStations, a \in Selections, b \in Selections, c \in PlanConfigs :
    /\ pc = "plan_build"
    /\ inp = [stations |-> st]
    /\ G = EmptyGraph
    /\ SearchIdle
    /\ sim = NoSim
    /\ plan = [NoPlan EXCEPT !.start_sel = a, !.end_sel = b, !.cfg = c]
    /\ ev = NoEval
    /\ first = <<>>

\* apply_filters(G, avoid_highway, avoid_toll): G.copy() less the highway
\* and toll edges, of which build_graph makes none
apply_filters(g) == g

\* _unique_id(base): base, or base_1, base_2, ... until not a node of G
RECURSIVE unique_id(_, _, _)
unique_id(g, base, idx) ==
  LET nid == IF idx = 0 THEN base ELSE base \o "_" \o ToString(idx)
  IN  IF HasNode(g, nid) THEN unique_id(g, base, idx + 1) ELSE nid

\* _append_virtual_station_row: a row with id, name, lat, lon and no power
append_virtual_station_row(stations, node_id, lat) ==
  Append(stations, [id |-> node_id, lat |-> lat, power |-> PNone])

\* "G = build_graph(stations, k_neighbors=8); G_filtered = apply_filters(G, ...)"
PlanBuild ==
  /\ pc = "plan_build"
  /\ LET g == build_graph(inp.stations, 200, <<8>>)
     IN  /\ plan' = [plan EXCEPT !.G = g, !.stations_mod = inp.stations]
         /\ G' = apply_filters(g)
  /\ pc' = "plan_resolve"
  /\ UNCHANGED <<ev, first, inp, searchVars, sim>>

\* "if start_sel is None or end_sel is None: return"
PlanUnresolved ==
  /\ pc = "plan_resolve"
  /\ plan.start_sel = <<"none">> \/ plan.end_sel = <<"none">>
  /\ plan' = [plan EXCEPT !.output = "Cannot resolve start or end."]
  /\ pc' = "done"
  /\ UNCHANGED <<ev, first, inp, G, searchVars, sim>>

\* the "# start" block: a virtual node for a coordinate is added to G (not
\* to G_filtered), else the station id is used
PlanStart ==
  /\ pc = "plan_resolve"
  /\ plan.start_sel # <<"none">> /\ plan.end_sel # <<"none">>
  /\ plan' =
       IF plan.start_sel[1] = "coord"
       THEN LET node == unique_id(plan.G, "START", 0)
            IN  [plan EXCEPT
                   !.G = add_virtual_node(plan.G, node, plan.start_sel[2], 8,
                                          max_search_distance_km),
                   !.start_node = node,
                   !.stations_mod =
                     append_virtual_station_row(@, node, plan.start_sel[2])]
       ELSE [plan EXCEPT !.start_node = plan.start_sel[2]]
  /\ pc' = "plan_end"
  /\ UNCHANGED <<ev, first, inp, G, searchVars, sim>>

\* the "# end" block
PlanEnd ==
  /\ pc = "plan_end"
  /\ plan' =
       IF plan.end_sel[1] = "coord"
       THEN LET node == unique_id(plan.G, "END", 0)
            IN  [plan EXCEPT
                   !.G = add_virtual_node(plan.G, node, plan.end_sel[2], 8,
                                          max_search_distance_km),
                   !.end_node = node,
                   !.stations_mod =
                     append_virtual_station_row(@, node, plan.end_sel[2])]
       ELSE [plan EXCEPT !.end_node = plan.end_sel[2]]
  /\ pc' = "plan_search"
  /\ UNCHANGED <<ev, first, inp, G, searchVars, sim>>

\* "search_fn(G_filtered, stations_mod, start=start_node, end=end_node, ...)":
\* the search starts on the filtered graph
PlanSearch ==
  /\ pc = "plan_search"
  /\ LET in == [algo |-> IF plan.cfg.use_astar THEN "astar" ELSE "ucs",
                stations |-> plan.stations_mod,
                start |-> plan.start_node, end |-> plan.end_node,
                battery_percent |-> plan.cfg.battery_percent,
                enable_nearby_search |-> TRUE, nearby_k |-> 5,
                charge_penalty_minutes |-> 0,
                max_expansions |-> plan.cfg.max_expansions]
     IN  /\ inp' = in
         /\ pq' = heappush(<<>>, Entry(G, in, State(in.start, in.battery_percent,
                                                    <<in.start>>, 0, 0, <<>>), 0))
  /\ visited' = {}
  /\ counter' = 1
  /\ expansions' = 0
  /\ result' = Running
  /\ last' = NoExpansion
  /\ popped' = 0
  /\ pc' = "search"
  /\ UNCHANGED <<ev, first, plan, G, sim>>

\* G.neighbors(state.node) on a node that is not in G raises NetworkXError
SearchRaises ==
  /\ pc = "search" /\ pq # <<>>
  /\ ~BudgetExceeded(expansions + 1, inp.max_expansions)
  /\ LET e == heappop(pq)[1]
     IN  /\ e.st.node # inp.end
         /\ ~Dominated(visited, e)
         /\ ~HasNode(G, e.st.node)
         /\ visited' = VisitedPut(visited, e)
  /\ pq' = heappop(pq)[2]
  /\ expansions' = expansions + 1
  /\ popped' = popped + 1
  /\ result' = [Running EXCEPT !.kind = "NetworkXError"]
  /\ pc' = "done"
  /\ UNCHANGED <<ev, first, plan, inp, G, counter, last, sim>>

NextPlan ==
  \/ PlanBuild
  \/ PlanUnresolved
  \/ PlanStart
  \/ PlanEnd
  \/ PlanSearch
  \/ SearchBudget
  \/ SearchGoal
  \/ SearchDominated
  \/ SearchExpand
  \/ SearchExhausted
  \/ SearchRaises

SpecPlan == InitPlan /\ [][NextPlan]_vars


\* --------------------------------------------------- further specifications
\* the searches over station tables in which a missing power_kw is NaN
InitSearchNaN == InitSearchOver(PowerProfilesNaN)

SpecSearchNaN == InitSearchNaN /\ [][NextSearch]_vars

\* a search, or a simulation of a station route
SpecSearchRoute == (InitSearch \/ InitRoute) /\ [][NextSearch \/ NextRoute]_vars

\* the searches started with SOCs that are no multiple of 0.1 percent, so
\* that round(state.battery_percent, 1) gives one key to different SOCs
FineSocs == {42470, 68720}

SearchInputsFine ==
  [algo : {"ucs", "astar"},
   stations : {MkStations(l, p) : l \in Layouts, p \in PowerProfiles},
   mode : GraphModes,
   start : {"ST01"},
   end : {"ST03", "ST04"},
   battery_percent : FineSocs,
   nearby : {[on |-> FALSE, k |-> 5], [on |-> TRUE, k |-> 5]},
   charge_penalty_minutes : {0, 5000},
   max_expansions : {SmallBudget, LargeBudget}]

InitSearchFine ==
  \E i \in SearchInputsFine :
    SearchEntry(MkGraph(i.stations, i.mode), SearchArgs(i))

SpecSearchFine == InitSearchFine /\ [][NextSearch]_vars

\* ---------------------------------------------------------------------------
\* a second call with the arguments of the first, on the graph object the
\* first call has left
\* ---------------------------------------------------------------------------

\* what a finished call has given back
Outcome ==
  [pc |-> pc, result |-> result, outcome |-> sim.outcome, ret |-> sim.ret]

\* ucs_ev_search / astar_ev_search has returned and is called again: pq,
\* visited and counter are locals of the call, G is the caller's object
RerunSearch ==
  /\ pc = "done" /\ first = <<>>
  /\ first' = <<Outcome>>
  /\ pc' = "search"
  /\ pq' = heappush(<<>>, Entry(G, inp, State(inp.start, inp.battery_percent,
                                              <<inp.start>>, 0, 0, <<>>), 0))
  /\ visited' = {}
  /\ counter' = 1
  /\ expansions' = 0
  /\ result' = Running
  /\ last' = NoExpansion
  /\ popped' = 0
  /\ UNCHANGED <<ev, plan, inp, G, sim>>

\* a simulator has returned or raised and is called again: soc, the totals,
\* charges and tmp_counter are locals of the call, G is the caller's object
RerunSim ==
  /\ pc \in {"route", "poly"} /\ first = <<>>
  /\ sim.outcome \notin {"idle", "running"}
  /\ first' = <<Outcome>>
  /\ sim' = [NoSim EXCEPT !.i = 1, !.soc = inp.battery_percent_start,
                          !.outcome = "running", !.G0 = G]
  /\ UNCHANGED <<ev, plan, pc, inp, G, searchVars>>

NextTwice ==
  \/ NextSearch
  \/ NextRoute
  \/ NextPoly
  \/ RerunSearch
  \/ RerunSim

SpecTwice == (InitSearch \/ InitRoute \/ InitPoly) /\ [][NextTwice]_vars

\* ---------------------------------------------------------------------------
\* sequences of the search's transitions, taken one after another from a
\* state at any node, without the frontier and without the visited dict
\* ---------------------------------------------------------------------------

\* the longest sequence of transitions followed
MaxWalk == 5

WalkInputs ==
  [algo : {"astar"},
   stations : {MkStations(l, p) : l \in Layouts, p \in PowerProfiles},
   mode : GraphModes,
   start : {Ids[x] : x \in 1..Len(Ids)},
   end : {"ST02", "ST04"},
   battery_percent : {50000, 38750},
   nearby : {[on |-> FALSE, k |-> 5], [on |-> TRUE, k |-> 5]},
   charge_penalty_minutes : {0, 5000},
   max_expansions : {LargeBudget}]

\* a state State(start, battery_percent, [start], 0.0, 0.0, []) at any node;
\* last.st is the state the sequence has reached, expansions its length
InitWalk ==
  \E i \in WalkInputs :
    /\ pc = "walk"
    /\ inp = SearchArgs(i)
    /\ G = MkGraph(i.stations, i.mode)
    /\ pq = <<>> /\ visited = {} /\ counter = 0 /\ expansions = 0
    /\ result = Running /\ popped = 0
    /\ last = [NoExpansion EXCEPT
                 !.st = State(i.start, i.battery_percent, <<i.start>>, 0, 0, <<>>)]
    /\ sim = NoSim /\ plan = NoPlan /\ ev = NoEval /\ first = <<>>

\* one transition: any of the states the expansion of last.st pushes (a move,
\* a charge at the node, a nearby fallback); a state at the goal is returned
\* by the search and has no successor
WalkStep ==
  /\ pc = "walk" /\ expansions < MaxWalk
  /\ last.st.node # inp.end
  /\ LET pushes == Expansion(G, inp, last.st)
     IN  \E x \in 1..Len(pushes) :
           last' = [st |-> pushes[x].st, pushes |-> pushes, seen |-> {}]
  /\ expansions' = expansions + 1
  /\ UNCHANGED <<ev, first, plan, pc, inp, G, pq, visited, counter, result,
                 popped, sim>>

NextWalk == WalkStep

SpecWalk == InitWalk /\ [][NextWalk]_vars

\* ---------------------------------------------------------------------------
\* plan_route's graph-search fallback: the search, then evaluate_routes on
\* the path it returned
\* ---------------------------------------------------------------------------

\* "eval_results = evaluate_routes(G_filtered, stations_mod, [path], ...,
\* sort_by="time")" with battery_percent_start = cfg["battery_percent"]
FallbackEvaluate ==
  /\ pc = "done" /\ ev = NoEval
  /\ result.kind = "path"
  /\ inp' = [stations |-> inp.stations, candidate_routes |-> <<result.path>>,
             sort_by |-> "time", battery_percent_start |-> inp.battery_percent,
             route |-> <<>>]
  /\ ev' = [idx |-> 1, results |-> <<>>, outcome |-> "running"]
  /\ pc' = "eval"
  /\ UNCHANGED <<first, plan, G, searchVars, sim>>

NextFallback ==
  \/ NextSearch
  \/ FallbackEvaluate
  \/ NextEval

\* the fallback, and evaluate_routes called on candidates of any kind
SpecFallback == (InitSearch \/ InitEval) /\ [][NextFallback]_vars

\* ==================================================================== C1
\* the only edge out of the start leads to the goal and needs more than the
\* initial SOC, and the start station has a positive power rating
C1_StartEdgeOutOfReach ==
  /\ inp.start \in StationIds(inp.stations)
  /\ PowerTruthyPositive(StationRow(inp.stations, inp.start).power)
  /\ Adj(G, inp.start) = <<inp.end>>
  /\ NeedPercent(edge_distance(G, inp.start, inp.end)) > inp.battery_percent

\* C1: when the edge out of the start needs more than the current SOC and the
\* start station has a positive power rating, a finished search that was not
\* cut by the budget has charged at the start before departure, to at most
\* charge_target_percent, and returns a path exactly when the SOC after that
\* charge covers the edge.
C1_ChargeAtStartWhenOutOfReach ==
  (pc = "done" /\ expansions <= inp.max_expansions /\ C1_StartEdgeOutOfReach) =>
    IF NeedPercent(edge_distance(G, inp.start, inp.end)) <= charge_target_percent
    THEN /\ result.kind = "path"
         /\ Len(result.charges) >= 1
         /\ result.charges[1].station_id = inp.start
         /\ result.charges[1].leave_soc <= charge_target_percent
         /\ result.path[2] = "Charge@" \o inp.start
    ELSE result.kind = "none"

\* ==================================================================== C2
\* the length of a returned path from its element i on, standing at cur: a
\* node id is a move over the edge to it, "Drive->c" a drive over the
\* shortest path to c, "Charge@c" no distance
RECURSIVE PathLegs(_, _, _, _)
PathLegs(g, path, i, cur) ==
  IF i > Len(path) THEN 0
  ELSE IF path[i] \in NodeSet(g)
  THEN EdgeDist(g, cur, path[i]) + PathLegs(g, path, i + 1, path[i])
  ELSE IF \E n \in NodeSet(g) : path[i] = "Drive->" \o n
  THEN LET c == CHOOSE n \in NodeSet(g) : path[i] = "Drive->" \o n
       IN  shortest_path_length(g, cur, c) + PathLegs(g, path, i + 1, c)
  ELSE PathLegs(g, path, i + 1, cur)

\* C2: the total distance of every returned search result is the sum of the
\* leg distances of its path, edge distances for moves and shortest-path
\* distances for the drives of the nearby search.
C2_TotalDistanceIsSumOfLegs ==
  result.kind = "path" =>
    result.dist = PathLegs(G, result.path, 2, result.path[1])

\* a result whose path has a move over an edge and a drive of the nearby search
C2_Witness ==
  /\ pc = "done" /\ result.kind = "path" /\ result.dist > 0
  /\ \E i \in 2..Len(result.path) : result.path[i] \in NodeSet(G)
  /\ \E i \in 2..Len(result.path), n \in NodeSet(G) :
       result.path[i] = "Drive->" \o n

\* ==================================================================== C3
\* C3: with a non-negative initial SOC no state on the frontier has a
\* negative SOC, and no charging event of a frontier state or of a returned
\* result has a negative arrival SOC.
C3_NoNegativeSoc ==
  /\ \A i \in 1..Len(pq) :
       /\ pq[i].st.battery_percent >= 0
       /\ \A c \in Range(pq[i].st.charges) : c.arrive_soc >= 0
  /\ \A c \in Range(result.charges) : c.arrive_soc >= 0

\* a returned result with a charge of the nearby search, reached with part
\* of the SOC spent on the way, while states are still on the frontier
C3_Witness ==
  /\ pc = "done" /\ result.kind = "path" /\ pq # <<>>
  /\ \E k \in 1..Len(result.charges) :
       /\ result.charges[k].arrive_soc < Round1(inp.battery_percent)
       /\ \E i \in 2..Len(result.path) :
            result.path[i] = "Drive->" \o result.charges[k].station_id

\* ==================================================================== C4
C4_RouteValid ==
  /\ inp.route # <<>>
  /\ \A k \in 1..Len(inp.route) : inp.route[k] \in StationIds(inp.stations)

\* the SOC the first k hops of the route need, and their length
RECURSIVE C4_SumNeed(_)
C4_SumNeed(k) ==
  IF k = 0 THEN 0
  ELSE C4_SumNeed(k - 1) + HopNeed(inp.stations, inp.route[k], inp.route[k + 1])

RECURSIVE C4_SumDist(_)
C4_SumDist(k) ==
  IF k = 0 THEN 0
  ELSE C4_SumDist(k - 1)
       + haversine_km(StationRow(inp.stations, inp.route[k]).lat,
                      StationRow(inp.stations, inp.route[k + 1]).lat)

\* every hop of the route ends at or above the threshold without charging
C4_AllHopsKeepThreshold ==
  \A k \in 1..(Len(inp.route) - 1) :
    inp.battery_percent_start - C4_SumNeed(k) >= safe_threshold_percent

\* C4: a segment that leaves the SOC at or above safe_threshold_percent,
\* equality included, is a plain move without a charge: the expansion pushes
\* the move with the SOC less the need and no charge for that neighbour, and
\* a route all of whose hops are such is simulated feasible, without a
\* charging event, with the sum of the hop distances as its total and the
\* start SOC less the needs as its final SOC.
C4_NoChargeAtOrAboveThreshold ==
  /\ (pc \in {"search", "done"} /\ last # NoExpansion) =>
       \A nb \in Range(Adj(G, last.st.node)) :
         LET need == NeedPercent(edge_distance(G, last.st.node, nb))
         IN  last.st.battery_percent - need >= safe_threshold_percent =>
               /\ \A k \in 1..Len(last.pushes) :
                    ~(last.pushes[k].kind = "charge" /\ last.pushes[k].via = nb)
               /\ \E k \in 1..Len(last.pushes) :
                    /\ last.pushes[k].kind = "move" /\ last.pushes[k].via = nb
                    /\ last.pushes[k].st.battery_percent = last.st.battery_percent - need
                    /\ last.pushes[k].st.charges = last.st.charges
  /\ (pc = "route" /\ sim.outcome # "running" /\ C4_RouteValid
        /\ C4_AllHopsKeepThreshold) =>
       /\ sim.outcome = "feasible"
       /\ sim.charges = <<>> /\ sim.ret[1].charges = <<>>
       /\ sim.ret[1].total_distance_km = C4_SumDist(Len(inp.route) - 1)
       /\ sim.soc = inp.battery_percent_start - C4_SumNeed(Len(inp.route) - 1)

\* a simulated route with a hop that ends exactly at the threshold
C4_Witness ==
  /\ pc = "route" /\ sim.outcome = "feasible" /\ C4_RouteValid
  /\ C4_AllHopsKeepThreshold
  /\ \E k \in 1..(Len(inp.route) - 1) :
       inp.battery_percent_start - C4_SumNeed(k) = safe_threshold_percent

\* ==================================================================== C5
\* C5: a finished simulation has either returned None or returned a complete
\* result marked feasible in which the SOC was never negative.
C5_NoneOrFeasible ==
  (pc \in {"route", "poly"} /\ sim.outcome # "running") =>
    \/ sim.outcome = "none" /\ sim.ret = <<>>
    \/ /\ sim.outcome = "feasible" /\ sim.ret # <<>> /\ sim.ret[1].feasible
       /\ \A k \in 1..Len(sim.soc_trace) : sim.soc_trace[k] >= 0

\* ==================================================================== C6
\* the temporary node ids simulate_along_polyline has made so far
C6_TmpIds == {TmpName(n) : n \in 0..sim.tmp_counter}

\* C6: when simulate_along_polyline has returned, by either exit, the graph
\* it was given has the nodes, edges and attributes it had before the call,
\* and no CUR_TMP node.
C6_GraphUnchanged ==
  (pc = "poly" /\ sim.outcome # "running") =>
    /\ G = sim.G0
    /\ NodeSet(G) \cap C6_TmpIds = {}

\* a return after a detour node and a pre-charge node were made
C6_Witness ==
  /\ pc = "poly" /\ sim.outcome \in {"none", "feasible"}
  /\ sim.tmp_counter >= 2 /\ sim.charges # <<>>

\* ==================================================================== C7
\* C7: the search ends: every pass of the loop counts one more expansion,
\* the count never passes max_expansions + 1, and the only other step is the
\* exit by an empty frontier; at most max_expansions states are popped; and
\* the exit by the budget returns what the exit by an empty frontier returns.
C7_TerminatesWithinBudget ==
  /\ [](/\ popped <= inp.max_expansions
        /\ (pc = "done" /\ result.kind # "path") => result = NoPath)
  /\ [][\/ /\ expansions' = expansions + 1
            /\ expansions' <= inp.max_expansions + 1
        \/ pq = <<>> /\ pc' = "done"]_vars

\* the exit by the budget, after max_expansions states were popped
C7_Witness ==
  /\ pc = "done" /\ expansions > inp.max_expansions /\ pq # <<>>
  /\ popped = inp.max_expansions /\ result = NoPath

\* ==================================================================== C8
\* C8: when plan_route hands a virtual START or END node to the search, that
\* node is a node of the graph the search runs on, and the search can use it.
C8_VirtualNodeInSearchGraph ==
  (pc \in {"search", "done"} /\ plan.start_node # "" /\ plan.end_node # "") =>
    /\ plan.start_sel[1] = "coord" =>
         inp.start = plan.start_node /\ HasNode(G, inp.start)
    /\ plan.end_sel[1] = "coord" =>
         inp.end = plan.end_node /\ HasNode(G, inp.end)
    /\ result.kind # "NetworkXError"

\* ==================================================================== C9
C9_UsablePower(p) == p.kind = "num" /\ p.kw > 0

\* C9: no charging event of a search state, of a search result or of a
\* simulation is at a station whose power rating is missing or not positive,
\* and such a station raises no error.
C9_ChargesOnlyWithPositivePower ==
  LET ok(c) == C9_UsablePower(StationRow(inp.stations, c.station_id).power)
  IN  /\ \A i \in 1..Len(pq) : \A c \in Range(pq[i].st.charges) : ok(c)
      /\ \A c \in Range(result.charges) : ok(c)
      /\ \A c \in Range(sim.charges) : ok(c)
      /\ result.kind \in {"running", "none", "path"}

\* =================================================================== C10
\* every edge carries the haversine distance of its endpoints
C10_AllEdgesHaversine ==
  \A e \in Range(G.w) :
    \A u \in e.e, v \in e.e :
      u # v => e.d = haversine_km(Lat(G, u), Lat(G, v))

\* C10 as stated: after build_graph and any sequence of add_virtual_node,
\* add_map_routes and node removals every edge carries the haversine
\* distance of its endpoints.
C10_EveryEdgeHaversine == pc = "graph" => C10_AllEdgesHaversine

\* C10, amended: every edge carries the haversine distance of its endpoints,
\* but for the edges stored by add_map_routes, which carry the distance_km
\* of their route.
C10_EdgesHaversineOrRoadDistance ==
  pc = "graph" =>
    \A e \in Range(G.w) :
      IF \E r \in inp.roads : r.e = e.e
      THEN [e |-> e.e, d |-> e.d] \in inp.roads
      ELSE \A u \in e.e, v \in e.e :
             u # v => e.d = haversine_km(Lat(G, u), Lat(G, v))

\* a graph with an edge of a virtual node and an edge stored by
\* add_map_routes whose distance is not the haversine distance
C10_Witness ==
  /\ pc = "graph"
  /\ \E e \in Range(G.w) : e.e \cap VirtualIds # {}
  /\ \E e \in Range(G.w) :
       /\ [e |-> e.e, d |-> e.d] \in inp.roads
       /\ \E u \in e.e, v \in e.e :
            u # v /\ e.d # haversine_km(Lat(G, u), Lat(G, v))


\* =================================================================== C11
\* build_graph has just returned a k-nearest graph over at least k + 1 stations
C11_KnnBuilt ==
  /\ pc = "graph" /\ inp.ops = 0 /\ inp.k_neighbors # <<>>
  /\ Len(inp.stations) >= inp.k_neighbors[1] + 1

\* C11: a graph built by build_graph with k_neighbors = k over at least
\* k + 1 stations is connected: there is a path between any two stations.
C11_KnnGraphConnected ==
  C11_KnnBuilt =>
    \A u \in NodeSet(G), v \in NodeSet(G) : shortest_path_length(G, u, v) < INF

\* =================================================================== C12
\* the other stations, and the distance between two stations
C12_Others(n) == NodeSet(G) \ {n}

C12_Dist(u, v) == haversine_km(Lat(G, u), Lat(G, v))

\* C12: in a graph built by build_graph with k_neighbors = k over at least
\* k + 1 stations with unique ids every node has at least k neighbours, and
\* is adjacent to k other stations none of which is farther than a station
\* outside them.
C12_DegreeAtLeastK ==
  C11_KnnBuilt =>
    \A n \in NodeSet(G) :
      /\ Len(Adj(G, n)) >= inp.k_neighbors[1]
      /\ \E S \in SUBSET C12_Others(n) :
           /\ Cardinality(S) = inp.k_neighbors[1]
           /\ S \subseteq Range(Adj(G, n))
           /\ \A a \in S, o \in C12_Others(n) \ S : C12_Dist(n, a) <= C12_Dist(n, o)

\* a graph built with k = 2 in which a node has more than k neighbours, an
\* edge having come from the other side
C12_Witness ==
  /\ C11_KnnBuilt /\ inp.k_neighbors = <<2>>
  /\ \E n \in NodeSet(G) : Len(Adj(G, n)) > 2

\* =================================================================== C13
\* C13: no graph built by build_graph from stations with unique ids and then
\* changed by the graph operations has an edge from a node to itself.
C13_NoSelfLoop ==
  pc = "graph" =>
    /\ \A e \in Range(G.w) : Cardinality(e.e) = 2
    /\ \A n \in NodeSet(G) : n \notin Range(Adj(G, n))

\* a graph with a virtual node at the place of no station, joined by edges
C13_Witness ==
  /\ pc = "graph"
  /\ \E id \in VirtualIds :
       HasNode(G, id) /\ Len(Adj(G, id)) >= 2

\* =================================================================== C14
\* C14: a call of add_virtual_node with an id that is a node of the graph
\* raises the duplicate-id error and leaves nodes, attributes and edges as
\* they were.
C14_DuplicateIdFails ==
  [][\A id \in VirtualIds :
       (pc = "graph" /\ HasNode(G, id) /\ inp'.ops = inp.ops + 1
          /\ inp'.call = <<"add_virtual_node", id>>)
         => (inp'.raised /\ G' = G)]_vars

\* a failed call, after two other calls, with the id of a node inserted by
\* add_virtual_node
C14_Witness ==
  /\ pc = "graph" /\ inp.raised /\ inp.ops >= 3
  /\ Len(inp.call) = 2 /\ inp.call[1] = "add_virtual_node"
  /\ HasNode(G, inp.call[2])
  /\ Cardinality(NodeSet(G) \cap VirtualIds) = 1


\* =================================================================== C15
\* the distance from the place asked about to a node
C15_Dist(n) == haversine_km(inp.query[1].lat, Lat(G, n))

\* C15: nearest_station returns none exactly when no node lies within
\* radius_km of the place, a node at exactly radius_km being within;
\* otherwise it returns a node of least distance together with that distance.
C15_NearestWithinRadius ==
  (pc = "nearest" /\ inp.query # <<>>) =>
    LET q == inp.query[1]
    IN  /\ (q.ret = <<>>) <=> ~(\E n \in NodeSet(G) : C15_Dist(n) <= q.radius_km)
        /\ q.ret # <<>> =>
             /\ q.ret[1] \in NodeSet(G)
             /\ q.ret[2] = C15_Dist(q.ret[1])
             /\ \A n \in NodeSet(G) : q.ret[2] <= C15_Dist(n)

\* a call answered with a node at exactly radius_km while others are farther
C15_Witness ==
  /\ pc = "nearest" /\ inp.query # <<>>
  /\ inp.query[1].ret # <<>>
  /\ inp.query[1].radius_km > 0
  /\ inp.query[1].ret[2] = inp.query[1].radius_km
  /\ \E n \in NodeSet(G) : C15_Dist(n) > inp.query[1].radius_km

\* a call answered with none although the graph has nodes
C15_WitnessNone ==
  /\ pc = "nearest" /\ inp.query # <<>>
  /\ inp.query[1].ret = <<>> /\ NodeSet(G) # {}


\* =================================================================== C16
\* how often a route occurs among the entries, and among the candidates
C16_Entries(route) == Cardinality({x \in 1..Len(ev.results) : ev.results[x].route = route})

C16_Candidates(route) ==
  Cardinality({x \in 1..Len(inp.candidate_routes) : inp.candidate_routes[x] = route})

\* one entry for each candidate, the feasible ones first and in the order
\* of their keys
C16_OnePerCandidateOrdered ==
  LET r == ev.results
  IN  /\ Len(r) = Len(inp.candidate_routes)
      /\ \A route \in EvalRoutes : C16_Entries(route) = C16_Candidates(route)
      /\ \A a \in 1..Len(r), b \in 1..Len(r) :
           a < b =>
             /\ r[b].feasible => r[a].feasible
             /\ (r[a].feasible /\ r[b].feasible) =>
                  EvalKey(r[a], inp.sort_by) <= EvalKey(r[b], inp.sort_by)

\* C16: for sort_by time, distance or charges evaluate_routes returns a list
\* with one entry for each candidate route, the feasible entries before the
\* others and in non-decreasing order of the key, the others kept with
\* feasible = false.
C16_EvaluateReturnsOrdered ==
  (pc = "done" /\ ev.outcome # "idle"
     /\ inp.sort_by \in {"time", "distance", "charges"}) =>
    (ev.outcome = "returned" /\ C16_OnePerCandidateOrdered)


\* =================================================================== C17
\* the second call has finished
C17_SecondDone ==
  /\ first # <<>>
  /\ \/ pc = "done"
     \/ pc \in {"route", "poly"} /\ sim.outcome # "running"

\* C17: a search or a simulator called a second time with the arguments of
\* the first call, on the graph the first call has left, gives back what the
\* first call gave: the same path, totals and charging events.
C17_SecondRunSame ==
  C17_SecondDone => Outcome = first[1]

\* a second polyline simulation that has made a detour over a temporary
\* node and has returned its dict with a charging event
C17_Witness ==
  /\ C17_SecondDone /\ pc = "poly"
  /\ sim.outcome = "feasible" /\ sim.tmp_counter > 0
  /\ sim.ret[1].charges # <<>>

\* a second search that has returned a path with a charging stop
C17_WitnessSearch ==
  /\ C17_SecondDone /\ pc = "done"
  /\ result.kind = "path" /\ result.charges # <<>>


\* =================================================================== C18
\* the pushes of the last expansion made in the neighbour loop for neighbour n
C18_PushesFor(n) ==
  SelectSeq(last.pushes, LAMBDA p : p.kind \in {"charge", "move"} /\ p.via = n)

C18_Required(n) == NeedPercent(edge_distance(G, last.st.node, n))

\* min(max(safe_threshold + required, SOC), charge_target_percent)
C18_Target(n) ==
  Min2(Max2(safe_threshold_percent + C18_Required(n), last.st.battery_percent),
       charge_target_percent)

\* the current node is a station with a positive power rating
C18_CurrentHasPower ==
  /\ last.st.node \in StationIds(inp.stations)
  /\ StationRow(inp.stations, last.st.node).power.kind = "num"
  /\ StationRow(inp.stations, last.st.node).power.kw > 0

\* C18: in one expansion, for each neighbour: when the required percent
\* exceeds the SOC nothing is pushed; when the SOC after the edge would be
\* below the safe threshold no move is pushed and, the current node having
\* positive power and the target exceeding the SOC, one state is pushed at
\* the current node with the target as its SOC and the distance unchanged;
\* otherwise one move is pushed at the neighbour with the SOC reduced by the
\* required percent.  Never both a charge and a move for one neighbour.
C18_OneOutcomePerNeighbor ==
  (pc \in {"search", "done"} /\ last # NoExpansion) =>
    \A n \in Range(Adj(G, last.st.node)) :
      LET s == last.st
          P == C18_PushesFor(n)
          required == C18_Required(n)
      IN  /\ Len(P) <= 1
          /\ required > s.battery_percent => P = <<>>
          /\ (required <= s.battery_percent
                /\ s.battery_percent - required < safe_threshold_percent) =>
               /\ \A x \in 1..Len(P) : P[x].kind = "charge"
               /\ (C18_CurrentHasPower /\ C18_Target(n) > s.battery_percent) =>
                    /\ Len(P) = 1
                    /\ P[1].st.node = s.node
                    /\ P[1].st.battery_percent = C18_Target(n)
                    /\ P[1].st.total_distance_km = s.total_distance_km
          /\ (required <= s.battery_percent
                /\ s.battery_percent - required >= safe_threshold_percent) =>
               /\ Len(P) = 1
               /\ P[1].kind = "move"
               /\ P[1].st.node = n
               /\ P[1].st.battery_percent = s.battery_percent - required

\* an expansion with a charge pushed for one neighbour, a move for another
\* and nothing for a third
C18_Witness ==
  /\ pc \in {"search", "done"} /\ last # NoExpansion
  /\ \E a, b, c \in Range(Adj(G, last.st.node)) :
       /\ Len(C18_PushesFor(a)) = 1 /\ C18_PushesFor(a)[1].kind = "charge"
       /\ Len(C18_PushesFor(b)) = 1 /\ C18_PushesFor(b)[1].kind = "move"
       /\ C18_PushesFor(c) = <<>>


\* =================================================================== C19
\* the pushes of the last expansion made by the nearby search
C19_NearbyPushes == SelectSeq(last.pushes, LAMBDA p : p.kind = "nearby")

\* the straight-line distance from the expanded node to a station
C19_Straight(id) ==
  haversine_km(StationRow(inp.stations, last.st.node).lat,
               StationRow(inp.stations, id).lat)

\* the stations other than the expanded node within max_search_distance_km
C19_InReach ==
  {id \in StationIds(inp.stations) :
     id # last.st.node /\ C19_Straight(id) <= max_search_distance_km}

\* C19: in one expansion the nearby search pushes at most nearby_k states,
\* each at a station other than the current node, within
\* max_search_distance_km of it and among the nearby_k nearest such, with
\* positive power, and reachable on the graph over a shortest path whose
\* required percent the SOC covers; the state has charge_target_percent as
\* its SOC and its distance is increased by the shortest-path distance.
C19_NearbyPushesUsable ==
  (pc \in {"search", "done"} /\ last # NoExpansion) =>
    /\ Len(C19_NearbyPushes) <= Max2(0, inp.nearby_k)
    /\ \A x \in 1..Len(C19_NearbyPushes) :
         LET p == C19_NearbyPushes[x]
             sp_dist == shortest_path_length(G, last.st.node, p.via)
         IN  /\ p.via \in C19_InReach
             /\ p.st.node = p.via
             /\ Cardinality({id \in C19_InReach :
                               C19_Straight(id) < C19_Straight(p.via)}) < inp.nearby_k
             /\ StationRow(inp.stations, p.via).power.kind = "num"
             /\ StationRow(inp.stations, p.via).power.kw > 0
             /\ sp_dist < INF
             /\ NeedPercent(sp_dist) <= last.st.battery_percent
             /\ p.st.battery_percent = charge_target_percent
             /\ p.st.total_distance_km = last.st.total_distance_km + sp_dist


\* =================================================================== C20
\* the percent the segment at hand requires
C20_Required ==
  IF pc = "route"
  THEN HopNeed(inp.stations, inp.route[sim.i], inp.route[sim.i + 1])
  ELSE PolyNeed

\* a candidate of the polyline detour with positive power that the SOC
\* reaches from the point at hand
C20_NearbyUsable ==
  LET lat1 == inp.polyline[sim.i]
      g == add_tmp_node(G, TmpName(sim.tmp_counter), lat1)
      cands == PolyCandidates(inp.stations, lat1)
  IN  \E x \in 1..Len(cands) :
        LET leg == DetourLeg(g, inp.osrm, lat1, TmpName(sim.tmp_counter), cands[x])
        IN  /\ cands[x].row.power.kind = "num" /\ cands[x].row.power.kw > 0
            /\ leg # <<>>
            /\ NeedPercent(leg[1]) <= sim.soc

\* a usable charger: the current station with positive power in path mode,
\* a nearby candidate otherwise
C20_UsableCharger ==
  IF pc = "route"
  THEN /\ StationRow(inp.stations, inp.route[sim.i]).power.kind = "num"
       /\ StationRow(inp.stations, inp.route[sim.i]).power.kw > 0
  ELSE C20_NearbyUsable

\* C20: in either simulator, a segment that the SOC covers but that would
\* leave the SOC below safe_threshold_percent is, a usable charger existing,
\* driven only after a charging event has been recorded for it.
C20_ChargeBeforeLowSegment ==
  [][(/\ pc \in {"route", "poly"} /\ sim.outcome = "running"
      /\ sim'.i = sim.i + 1
      /\ C20_Required <= sim.soc
      /\ sim.soc - C20_Required < safe_threshold_percent
      /\ C20_UsableCharger)
       => Len(sim'.charges) > sim.seg_charges]_vars


\* =================================================================== C21
\* what the search pushes for the hop at hand when it charges at the
\* current station with the simulator's SOC (rule 3)
C21_SearchCharge ==
  LET cur == inp.route[sim.i]
      nxt == inp.route[sim.i + 1]
  IN  ChargeHere(inp.stations, State(cur, sim.soc, <<cur>>, 0, 0, <<>>), nxt,
                 HopNeed(inp.stations, cur, nxt), 0)

\* C21: when simulate_single_route charges at the current station before a
\* hop, the search's rule 3 charges for the same hop, SOC and station, and
\* both leave with the same SOC, min(max(safe_threshold + required, SOC),
\* charge_target_percent), and record the same charge minutes.
C21_SimulatorChargesAsSearch ==
  [][(pc = "route" /\ sim.outcome = "running"
        /\ Len(sim'.charges) = Len(sim.charges) + 1)
       => /\ C21_SearchCharge # <<>>
          /\ LET st == C21_SearchCharge[1].st
                 need == HopNeed(inp.stations, inp.route[sim.i], inp.route[sim.i + 1])
                 event == sim'.charges[Len(sim'.charges)]
             IN  /\ sim'.soc + need = st.battery_percent
                 /\ event.charge_minutes = st.charges[1].charge_minutes]_vars


\* =================================================================== C22
\* a step of a path that is not the id of a station: Charge@ or Drive->
C22_HasMarker(path) ==
  \E x \in 1..Len(path) : path[x] \notin StationIds(inp.stations)

C22_PlainPathReplayable ==
  (pc = "done" /\ ev.outcome = "returned" /\ result.kind = "path"
     /\ ~C22_HasMarker(result.path)) =>
    \A x \in 1..Len(ev.results) : ev.results[x].feasible


\* =================================================================== C23
\* the state popped by the step at hand
C23_Popped == heappop(pq)[1].st

\* a state expanded before had the key of the popped state and an
\* accumulated time not larger than its own
C23_SeenNotLater ==
  \E x \in last.seen :
    /\ x.key = VisitedKey(C23_Popped)
    /\ x.time <= C23_Popped.total_time_min

\* C23: a popped state that is not at the goal is expanded if and only if
\* no state expanded before had the same (node, SOC rounded to 0.1) key and
\* an accumulated time less than or equal to its own; otherwise it is
\* discarded and nothing is pushed.  The time compared and recorded is the
\* accumulated time g, in A* too.
C23_ExpandedUnlessDominated ==
  [][(pc = "search" /\ popped' = popped + 1 /\ C23_Popped.node # inp.end) =>
       IF C23_SeenNotLater
       THEN /\ pq' = heappop(pq)[2]
            /\ UNCHANGED <<visited, counter, last>>
       ELSE /\ last'.st = C23_Popped
            /\ last'.seen = last.seen \cup {[key |-> VisitedKey(C23_Popped),
                                              time |-> C23_Popped.total_time_min]}
            /\ visited' = VisitedPut(visited, heappop(pq)[1])
            /\ \E v \in visited' : /\ v.key = VisitedKey(C23_Popped)
                                   /\ v.cost = C23_Popped.total_time_min]_vars

\* an A* search that has expanded several states and has discarded one: more
\* states were popped than were expanded, the goal state counted
C23_Witness ==
  /\ pc \in {"search", "done"} /\ inp.algo = "astar"
  /\ Cardinality(last.seen) >= 2
  /\ popped > Cardinality(last.seen) + 1


C24_WitnessTight ==
  /\ pc = "walk" /\ last.st.node = inp.end /\ inp.start # inp.end
  /\ Heuristic(G, inp.start, inp.end) = last.st.total_time_min


\* =================================================================== C25
\* the station the hop at hand leaves, and the percent the hop requires
C25_Cur == inp.route[sim.i]

C25_HopUnaffordable ==
  /\ pc = "route" /\ sim.outcome = "running"
  /\ sim.i <= Len(inp.route) - 1
  /\ inp.route[sim.i] \in StationIds(inp.stations)
  /\ inp.route[sim.i + 1] \in StationIds(inp.stations)
  /\ HopNeed(inp.stations, inp.route[sim.i], inp.route[sim.i + 1]) > sim.soc

C25_Straight(id) ==
  haversine_km(StationRow(inp.stations, C25_Cur).lat, StationRow(inp.stations, id).lat)

\* the nearby_k straight-line-nearest stations within nearby_radius_km
C25_Near ==
  LET reach == {id \in StationIds(inp.stations) :
                  id # C25_Cur /\ C25_Straight(id) <= nearby_radius_km}
  IN  {id \in reach :
         Cardinality({o \in reach : C25_Straight(o) < C25_Straight(id)}) < nearby_k}

\* the candidates that survive the filters: graph-reachable, affordable with
\* the SOC, positive power, SOC below the charge target
C25_Survivors ==
  {id \in C25_Near :
     /\ shortest_path_length(G, C25_Cur, id) < INF
     /\ NeedPercent(shortest_path_length(G, C25_Cur, id)) <= sim.soc
     /\ StationRow(inp.stations, id).power.kind = "num"
     /\ StationRow(inp.stations, id).power.kw > 0
     /\ charge_target_percent > sim.soc}

\* detour driving time + charge time of a candidate
C25_AddedTime(id) ==
  DriveTime(shortest_path_length(G, C25_Cur, id))
    + charge_time_minutes(StationRow(inp.stations, id).power,
                          charge_target_percent - sim.soc)

\* C25: when the next hop of simulate_single_route needs more SOC than there
\* is, a detour charge is recorded at a surviving candidate of least detour
\* driving time + charge time; the simulation is infeasible if no candidate
\* survives.
C25_DetourToBestCandidate ==
  [][C25_HopUnaffordable =>
       IF C25_Survivors = {}
       THEN sim'.outcome = "none"
       ELSE /\ sim'.outcome \in {"running", "none"}
            /\ Len(sim'.charges) > Len(sim.charges)
            /\ LET chosen == sim'.charges[Len(sim.charges) + 1].station_id
               IN  /\ chosen \in C25_Survivors
                   /\ \A id \in C25_Survivors :
                        C25_AddedTime(chosen) <= C25_AddedTime(id)]_vars


\* =================================================================== C26
\* a simulator is at a segment that requires more than the SOC and is about
\* to look for a detour
C26_AtDetour ==
  \/ C25_HopUnaffordable
  \/ PolyInLoop /\ sim.stage = "detour"

\* the polyline candidates with a route or a graph path that the SOC covers
\* and with positive power
C26_PolySurvivors ==
  LET lat1 == inp.polyline[sim.i]
      cands == PolyCandidates(inp.stations, lat1)
  IN  {x \in 1..Len(cands) :
         LET leg == DetourLeg(G, inp.osrm, lat1, sim.tmp_node, cands[x])
         IN  /\ leg # <<>>
             /\ NeedPercent(leg[1]) <= sim.soc
             /\ cands[x].row.power.kind = "num" /\ cands[x].row.power.kw > 0}

C26_NoSurvivor ==
  IF pc = "route" THEN C25_Survivors = {} ELSE C26_PolySurvivors = {}

\* C26: in path and polyline simulation the search for a detour does not
\* abort the simulation: candidates without a graph path or a route are
\* skipped, and the simulation returns infeasible for lack of a detour only
\* when no candidate survives.
C26_DetourSearchNeverAborts ==
  [][C26_AtDetour =>
       /\ sim'.outcome \in {"running", "none"}
       /\ (sim'.outcome = "none" /\ sim'.charges = sim.charges) => C26_NoSurvivor]_vars


\* =================================================================== C27
\* the call at hand is about to insert its next temporary node
C27_AboutToInsert ==
  \/ PolyInLoop /\ sim.stage = "seg" /\ PolyNeed > sim.soc
  \/ PolyAtPreCheck /\ BelowThresholdAfter(sim.soc, PolyNeed)

\* C27: two simulate_along_polyline calls interleaved on one graph are not
\* safe: each numbers its temporary nodes from CUR_TMP_0, and an insertion
\* made while the other call's node of the same number is in the graph
\* fails with the duplicate-id error.
C27_InterleavedInsertFails ==
  [][(/\ pc = "poly" /\ first # <<>>
      /\ C27_AboutToInsert
      /\ first[1].sim.tmp_node = TmpName(sim.tmp_counter)
      /\ HasNode(G, first[1].sim.tmp_node)
      /\ first' = first
      /\ sim'.tmp_counter = sim.tmp_counter + 1)
       => (sim'.outcome = "ValueError" /\ G' = G)]_vars

\* an interleaving in which one call has failed with the duplicate-id error
\* while the other call is at its detour with its temporary node in the graph
C27_Witness ==
  /\ pc = "poly" /\ first # <<>>
  /\ sim.outcome = "ValueError"
  /\ first[1].sim.outcome = "running" /\ first[1].sim.stage = "detour"
  /\ first[1].sim.tmp_node = "CUR_TMP_0"
  /\ HasNode(G, "CUR_TMP_0")


\* =================================================================== C28
\* whether some sequence of at most depth search transitions (moves, charges
\* at the node, nearby fallbacks) leads from state s to the goal with a
\* total time below limit
RECURSIVE C28_CheaperArrival(_, _, _)
C28_CheaperArrival(s, limit, depth) ==
  IF ~FLt(s.total_time_min, limit) THEN FALSE
  ELSE IF s.node = inp.end THEN TRUE
  ELSE IF depth = 0 THEN FALSE
  ELSE LET pushes == Expansion(G, inp, s)
       IN  \E x \in 1..Len(pushes) : C28_CheaperArrival(pushes[x].st, limit, depth - 1)

\* C28: when ucs_ev_search returns a path (charge_penalty_minutes >= 0, the
\* budget not exceeded), no sequence of search transitions from the start
\* state reaches the goal with a smaller total time: the pruning on
\* (node, rounded SOC) discards no cheaper way.
C28_UcsPathIsCheapest ==
  (pc = "done" /\ inp.algo = "ucs" /\ result.kind = "path"
     /\ inp.charge_penalty_minutes >= 0) =>
    ~C28_CheaperArrival(State(inp.start, inp.battery_percent, <<inp.start>>, 0, 0, <<>>),
                        result.time, MaxWalk)



\* =================================================================== C29
\* the rounding of arrive_soc and leave_soc (0.1 % each) and of
\* charge_minutes (0.1 min) an event is stored with, as minutes at power p
C29_RoundingSlack(p) == charge_time_minutes(p, 200) + 100

\* the event's charge_minutes is the time charge_time_minutes gives for the
\* energy between its arrive_soc and its leave_soc at the station's power
C29_EventConsistent(stations, c) ==
  LET p == StationRow(stations, c.station_id).power
      t == charge_time_minutes(p, c.leave_soc - c.arrive_soc)
  IN  /\ p.kind = "num"
      /\ p.kw > 0
      /\ c.charge_minutes # NaN
      /\ Abs(c.charge_minutes - t) <= C29_RoundingSlack(p)

\* C29 as stated, for the search: every charging event of a state the
\* search creates (charge at the current node, nearby fallback) has
\* charge_minutes = battery_kwh_max * (leave_soc - arrive_soc) / 100
\* / power_kw * 60.
C29_ChargeMinutesFromSocDelta ==
  /\ \A i \in 1..Len(pq) :
       \A c \in Range(pq[i].st.charges) : C29_EventConsistent(inp.stations, c)
  /\ \A c \in Range(result.charges) : C29_EventConsistent(inp.stations, c)

\* the same for the events of the simulators (charge at the current
\* station, detour charge)
C29_SimulatorChargeMinutesFromSocDelta ==
  \A c \in Range(sim.charges) : C29_EventConsistent(inp.stations, c)



\* =================================================================== C30
\* the sum of charge_minutes + penalty_minutes over a list of events
RECURSIVE C30_ChargeTotal(_)
C30_ChargeTotal(charges) ==
  IF charges = <<>> THEN 0
  ELSE FAdd(FAdd(Head(charges).charge_minutes, Head(charges).penalty_minutes),
            C30_ChargeTotal(Tail(charges)))

\* the "Charge@<station>" entries of a path
C30_Markers(path) ==
  {i \in 1..Len(path) : \E j \in 1..Len(Ids) : path[i] = "Charge@" \o Ids[j]}

\* an event stores its charge_minutes rounded to 0.1 min
C30_RoundingSlack(charges) == 50 * Len(charges)

C30_Accounted(s) ==
  LET drive == (s.total_distance_km * 60 * 1000) \div avg_speed_kmh
      total == FAdd(drive, C30_ChargeTotal(s.charges))
  IN  /\ s.total_time_min # NaN
      /\ total # NaN
      /\ Abs(s.total_time_min - total) <= C30_RoundingSlack(s.charges)
      /\ Cardinality(C30_Markers(s.path)) = Len(s.charges)

\* the states the search has created: the frontier, the popped state and
\* the pushes of the last expansion
C30_Created ==
  {pq[i].st : i \in 1..Len(pq)} \cup {last.st}
    \cup {last.pushes[i].st : i \in 1..Len(last.pushes)}

\* C30: with avg_speed_kmh > 0, every state created by ucs_ev_search or
\* astar_ev_search has accumulated time = accumulated distance / avg_speed_kmh
\* * 60 + the sum of (charge minutes + charge_penalty_minutes) over its
\* charging events, and as many "Charge@" markers in its path as it has
\* charging events.
C30_TimeAndMarkersAccounted ==
  (pc = "search" /\ avg_speed_kmh > 0) => \A s \in C30_Created : C30_Accounted(s)

\* a created state that has driven, charged at its node and charged through
\* the nearby fallback, with a penalty
C30_Witness ==
  /\ pc = "search"
  /\ inp.charge_penalty_minutes > 0
  /\ \E s \in C30_Created :
       /\ s.total_distance_km > 0
       /\ Len(s.charges) >= 2
       /\ \E i \in 1..Len(s.path) : \E j \in 1..Len(Ids) : s.path[i] = "Drive->" \o Ids[j]
       /\ \E i \in 2..Len(s.path) : \E j \in 1..Len(Ids) :
            /\ s.path[i] = "Charge@" \o Ids[j]
            /\ s.path[i - 1] # "Drive->" \o Ids[j]

====
